---- MODULE Spec2Model ----
(***************************************************************************)
(* A state-machine model of mystl::deque (src/mystl_deque.h): the map of   *)
(* block pointers, the blocks, the two sentinel cursors _start / _finish,  *)
(* the cursor arithmetic and the container operations, over an explicit    *)
(* heap of map arrays and blocks.                                          *)
(*                                                                         *)
(* Pointers are integers.  Block b occupies the addresses                  *)
(* b*Stride .. b*Stride + BufSize - 1; b*Stride + BufSize is its           *)
(* one-past-the-end address (the gap keeps two blocks from being           *)
(* adjacent, as the allocator's chunk header does).  Map array m occupies  *)
(* the slot addresses m*MapStride .. m*MapStride + size - 1.               *)
(*                                                                         *)
(* An operation is a function from worlds to worlds.  Intermediate worlds  *)
(* are bound with The({ e : W \in {W0} }) so that each is computed once.   *)
(***************************************************************************)
EXTENDS Integers, Sequences, FiniteSets, TLC

\* ---------------------------------------------------------------- bounds
BufSize == 2
MaxBlocks == 8
MaxMaps == 4
MaxOps == 2
MaxPush == 8
MaxFail == 3
MaxBufs == 5
MaxVecOps == 4
MaxFrames == 3
MaxNeed == 4

\* ------------------------------------------------------ program constants
NullPtr == 0
Raw == -1
DefaultT == 0

Stride == BufSize + 1
MaxMapSize == 4 * (MaxBlocks + 2)
MapStride == MaxMapSize + 1
WildPtr == (MaxBlocks + 1) * Stride
WildNode == (MaxMaps + 1) * MapStride

BlkIds == 1..MaxBlocks
MapIds == 1..MaxMaps
Objs == {1, 2}
MaxCount == BufSize + 1
InputSeq(n) == [k \in 1..n |-> k]

VARIABLES obj, maps, blk, fault, cfg, nops, last, stats, hist, vec, call

vars == << obj, maps, blk, fault, cfg, nops, last, stats, hist, vec, call >>

The(S) == CHOOSE r \in S : TRUE

\* ------------------------------------------------------------------ heap
BlkOf(p) == p \div Stride
OffOf(p) == p % Stride
BlkAddr(b) == b * Stride
MapOf(n) == n \div MapStride
IdxOf(n) == n % MapStride
MapAddr(m) == m * MapStride

NullIt == [cur |-> NullPtr, first |-> NullPtr, last |-> NullPtr, node |-> NullPtr]

\* The world an operation runs in: the variables, plus the operation's own
\* exception state.  fuel = 0: nothing fails; fuel = k > 0: the k-th
\* allocation or (non-trivial) element construction of the operation throws.
World(f) ==
    [obj |-> obj, maps |-> maps, blk |-> blk, fault |-> fault, cfg |-> cfg,
     stats |-> stats, fuel |-> f, thrown |-> FALSE, oom |-> FALSE, ret |-> NullIt]

Ok(W) == W.fault = "none" /\ ~W.thrown /\ ~W.oom

Event(W) ==
    IF W.fuel = 0 THEN W
    ELSE IF W.fuel = 1 THEN [W EXCEPT !.thrown = TRUE, !.fuel = 0]
    ELSE [W EXCEPT !.fuel = @ - 1]

Fault(W, what) == IF Ok(W) THEN [W EXCEPT !.fault = what] ELSE W

LiveBlock(W, b) == b \in BlkIds /\ W.blk[b].st = "live"
LiveMap(W, m) == m \in MapIds /\ W.maps[m].st = "live"
ValidElem(W, p) == LiveBlock(W, BlkOf(p)) /\ OffOf(p) < BufSize
ValidNode(W, n) == LiveMap(W, MapOf(n)) /\ IdxOf(n) < Len(W.maps[MapOf(n)].slots)

FreeBlkIds(W) == {b \in BlkIds : W.blk[b].st = "unused"}
FreeMapIds(W) == {m \in MapIds : W.maps[m].st = "unused"}
MinOf(S) == CHOOSE x \in S : \A y \in S : x <= y

\* allocator<T>::allocate(buffer_size()): a fresh block of raw storage.
AllocBlock(W0) ==
    The({
        IF ~Ok(W) THEN [w |-> W, p |-> NullPtr]
        ELSE IF W.fuel = 1 THEN [w |-> Event(W), p |-> NullPtr]
        ELSE IF FreeBlkIds(W) = {} THEN [w |-> [W EXCEPT !.oom = TRUE], p |-> NullPtr]
        ELSE The({
            [w |-> [Event(W) EXCEPT !.blk[b] = [st |-> "live", frees |-> 0,
                                                 data |-> [k \in 1..BufSize |-> Raw]],
                                    !.stats.nalloc = @ + 1],
             p |-> BlkAddr(b)]
        : b \in {MinOf(FreeBlkIds(W))} })
    : W \in {W0} })

\* map_traits_type::allocate(_map_alloc, n): n slots of indeterminate content.
AllocMap(W0, n) ==
    The({
        IF ~Ok(W) THEN [w |-> W, p |-> NullPtr]
        ELSE IF W.fuel = 1 THEN [w |-> Event(W), p |-> NullPtr]
        ELSE IF FreeMapIds(W) = {} \/ n > MaxMapSize
             THEN [w |-> [W EXCEPT !.oom = TRUE], p |-> NullPtr]
        ELSE The({
            [w |-> [Event(W) EXCEPT !.maps[m] = [st |-> "live", frees |-> 0,
                                                  slots |-> [k \in 1..n |-> W.cfg.junk]],
                                    !.stats.nalloc = @ + 1],
             p |-> MapAddr(m)]
        : m \in {MinOf(FreeMapIds(W))} })
    : W \in {W0} })

\* allocator<T>::deallocate(p, n): a null pointer is ignored; anything that is
\* not the address of a live block is a bad free.
DeallocBlock(W0, p0) ==
    The({
        IF ~Ok(W) THEN W
        ELSE IF LiveBlock(W, BlkOf(p)) /\ OffOf(p) = 0
             THEN [W EXCEPT !.blk[BlkOf(p)].st = "freed", !.blk[BlkOf(p)].frees = @ + 1]
        ELSE IF p = NullPtr THEN [W EXCEPT !.stats.nullfree = @ + 1]
        ELSE [W EXCEPT !.fault = "bad_free", !.stats.badfree = @ + 1]
    : W \in {W0}, p \in {p0} })

DeallocMap(W0, p0) ==
    The({
        IF ~Ok(W) THEN W
        ELSE IF LiveMap(W, MapOf(p)) /\ IdxOf(p) = 0
             THEN [W EXCEPT !.maps[MapOf(p)].st = "freed", !.maps[MapOf(p)].frees = @ + 1]
        ELSE IF p = NullPtr THEN [W EXCEPT !.stats.nullfree = @ + 1]
        ELSE [W EXCEPT !.fault = "bad_free", !.stats.badfree = @ + 1]
    : W \in {W0}, p \in {p0} })

\* *node for a map slot; a read outside a live map yields indeterminate content.
ReadSlot(W, n) ==
    IF ValidNode(W, n) THEN W.maps[MapOf(n)].slots[IdxOf(n) + 1] ELSE W.cfg.junk

\* *node = p
WriteSlot(W0, n, p0) ==
    The({
        IF ~Ok(W) THEN W
        ELSE IF ValidNode(W, n)
             THEN [W EXCEPT !.maps[MapOf(n)].slots[IdxOf(n) + 1] = p]
        ELSE [W EXCEPT !.fault = "oob_map_write"]
    : W \in {W0}, p \in {p0} })

\* *p for an element
ReadElem(W, p) == IF ValidElem(W, p) THEN W.blk[BlkOf(p)].data[OffOf(p) + 1] ELSE Raw

\* allocator_traits::construct(_alloc, p, v) and *p = v
WriteElem(W0, p, v0) ==
    The({
        IF ~Ok(W) THEN W
        ELSE IF ValidElem(W, p) THEN [W EXCEPT !.blk[BlkOf(p)].data[OffOf(p) + 1] = v]
        ELSE [W EXCEPT !.fault = "wild_write"]
    : W \in {W0}, v \in {v0} })

\* construct of a non-trivial T may throw; a trivial T is stored directly
Construct(W0, p, v) ==
    The({
        IF ~Ok(W) THEN W
        ELSE IF W.cfg.trivial THEN WriteElem(W, p, v)
        ELSE WriteElem(Event(W), p, v)
    : W \in {W0} })

\* allocator_traits::destroy(_alloc, p): allocator<T>::destroy ignores a null p
Destroy(W0, p) ==
    The({
        IF ~Ok(W) \/ p = NullPtr THEN W
        ELSE IF ValidElem(W, p) THEN [W EXCEPT !.blk[BlkOf(p)].data[OffOf(p) + 1] = Raw]
        ELSE [W EXCEPT !.fault = "wild_destroy"]
    : W \in {W0} })

\* ------------------------------------------------------- deque::iterator
buffer_size == BufSize

\* C++ integer division and remainder (truncation toward zero)
CDiv(a, b) == IF a >= 0 THEN a \div b ELSE -((-a) \div b)
CMod(a, b) == a - b * CDiv(a, b)

\* the cursor on offset k of the block that map slot n names
Cursor(W, n, k) ==
    The({ [cur |-> f + k, first |-> f, last |-> f + buffer_size, node |-> n]
    : f \in {ReadSlot(W, n)} })

\* iterator::operator++
operator_inc(W, it) ==
    IF it.cur + 1 = it.last THEN Cursor(W, it.node + 1, 0)
    ELSE [it EXCEPT !.cur = @ + 1]

\* iterator::operator--
operator_dec(W, it) ==
    IF it.cur = it.first THEN Cursor(W, it.node - 1, buffer_size - 1)
    ELSE [it EXCEPT !.cur = @ - 1]

\* iterator::operator+=
operator_pluseq(W, it, n) ==
    The({
        IF CMod(offset, buffer_size) < 0
        THEN Cursor(W, it.node + CDiv(offset, buffer_size) - 1,
                    CMod(offset, buffer_size) + buffer_size)
        ELSE Cursor(W, it.node + CDiv(offset, buffer_size), CMod(offset, buffer_size))
    : offset \in {(it.cur - it.first) + n} })

\* iterator::operator-(const iterator&)
operator_diff(a, b) ==
    (a.node - b.node) * buffer_size + ((a.cur - a.first) - (b.cur - b.first))

\* iterator::operator+(n) and operator-(n) return a reference to their local
\* tmp: the caller reads a dead object.  A build that leaves the dead frame
\* intact reads tmp's value; one that drops the dead stores reads garbage.
WildIt == [cur |-> WildPtr, first |-> WildPtr, last |-> WildPtr + buffer_size, node |-> WildNode]
operator_plus(W, it, n) ==
    IF W.cfg.dangle THEN WildIt ELSE operator_pluseq(W, it, n)
operator_minus(W, it, n) ==
    IF W.cfg.dangle THEN WildIt ELSE operator_pluseq(W, it, -n)

\* iterator::operator< : by node, then by cur
operator_lt(a, b) == IF a.node = b.node THEN a.cur < b.cur ELSE a.node < b.node
operator_ge(a, b) == ~operator_lt(a, b)
operator_gt(a, b) == operator_lt(b, a)
operator_le(a, b) == ~operator_gt(a, b)

\* iterator::operator== compares _cur only
operator_eq(a, b) == a.cur = b.cur

\* deque::size
size(W, i) == operator_diff(W.obj[i].finish, W.obj[i].start)

\* ------------------------------------------------------ deque internals
\* for (i = 0; i < num_blocks; ++i) block_ptr[i] = allocate(buffer_size())
RECURSIVE InitBlocks(_, _, _, _)
InitBlocks(W0, i, k, n) ==
    The({
        IF k >= n \/ ~Ok(W) THEN W
        ELSE The({ InitBlocks(WriteSlot(a.w, W.obj[i].map + 1 + k, a.p), i, k + 1, n)
             : a \in {AllocBlock(W)} })
    : W \in {W0} })

\* _start on the first block, _finish = _start; _finish += nblocks
SetCursors(W0, i, nblocks) ==
    The({
        IF ~Ok(W) THEN W
        ELSE The({ [W EXCEPT !.obj[i].start = st,
                             !.obj[i].finish = operator_pluseq(W, st, nblocks)]
             : st \in {Cursor(W, W.obj[i].map + 1, 0)} })
    : W \in {W0} })

_initialize_map(W0, i, nblocks) ==
    The({
        IF ~Ok(W) THEN W
        ELSE The({
            The({
                IF ~Ok(a.w) THEN a.w
                ELSE SetCursors(InitBlocks([a.w EXCEPT !.obj[i].map = a.p],
                                           i, 0, num_blocks), i, nblocks)
            : a \in {AllocMap([W EXCEPT !.obj[i].map_size = num_blocks + 2],
                              num_blocks + 2)} })
        : num_blocks \in {IF nblocks # 0 THEN nblocks ELSE 1} })
    : W \in {W0} })

\* for (i = 0; i < old_nodes; ++i) new_start[i] = _start._node[i]
RECURSIVE CopyNodes(_, _, _, _, _)
CopyNodes(W0, from, to, k, n) ==
    The({
        IF k >= n \/ ~Ok(W) THEN W
        ELSE CopyNodes(WriteSlot(W, to + k, ReadSlot(W, from + k)), from, to, k + 1, n)
    : W \in {W0} })

Max(a, b) == IF a >= b THEN a ELSE b

\* steps 5 and 6 of _reallocate_map: the members and both cursors re-based
Rebase(W0, i, d, new_map, new_map_size, new_start, old_nodes) ==
    The({
        IF ~Ok(W) THEN W
        ELSE [W EXCEPT !.obj[i].map = new_map,
                       !.obj[i].map_size = new_map_size,
                       !.obj[i].start = Cursor(W, new_start, d.start.cur - d.start.first),
                       !.obj[i].finish = Cursor(W, new_start + (old_nodes - 1),
                                                d.finish.cur - d.finish.first)]
    : W \in {W0} })

\* a deque that never grows its map
NoRealloc(W0, i, add_front, add_back) == W0

\* a _reallocate_map that gives the old map back before it asks for the new one
FreeFirst(W0, i, add_front, add_back) ==
    The({
        IF ~Ok(W) THEN W
        ELSE The({
            The({
                Rebase(CopyNodes(a.w, W.obj[i].start.node, new_start, 0, old_nodes),
                       i, W.obj[i], a.p, new_map_size, new_start, old_nodes)
            : a \in {AllocMap(DeallocMap(W, W.obj[i].map), new_map_size)},
              new_start \in {W.obj[i].map} })
        : old_nodes \in {W.obj[i].finish.node - W.obj[i].start.node + 1},
          new_map_size \in {W.obj[i].map_size
                            + Max(W.obj[i].map_size, add_front + add_back)} })
    : W \in {W0} })

_reallocate_map(W0, i, add_front, add_back) ==
    The({
        IF ~Ok(W) THEN W
        ELSE The({
            IF old_nodes < 0 THEN Fault(W, "wild_read")
            ELSE The({
                IF ~Ok(a.w) THEN a.w
                ELSE The({
                    Rebase(DeallocMap(CopyNodes(a.w, d.start.node, new_start, 0, old_nodes),
                                      d.map),
                           i, d, a.p, new_map_size, new_start, old_nodes)
                : new_start \in {a.p + (new_map_size - old_nodes) \div 2 + add_front} })
            : a \in {AllocMap(W, new_map_size)} })
        : d \in {W.obj[i]},
          old_nodes \in {W.obj[i].finish.node - W.obj[i].start.node + 1},
          new_map_size \in {W.obj[i].map_size
                            + Max(W.obj[i].map_size, add_front + add_back)} })
    : W \in {W0} })

\* for (i = 0; i < blocks; ++i, ++node) deallocate(*node, buffer_size())
RECURSIVE FreeNodes(_, _, _)
FreeNodes(W0, node, k) ==
    The({
        IF k <= 0 \/ ~Ok(W) THEN W
        ELSE FreeNodes(DeallocBlock(W, ReadSlot(W, node)), node + 1, k - 1)
    : W \in {W0} })

_deallocate_all_blocks(W0, i) ==
    The({
        IF ~Ok(W) \/ W.obj[i].map = NullPtr THEN W
        ELSE The({
            IF blocks < 0 THEN Fault(W, "bad_free")
            ELSE DeallocMap(FreeNodes(W, W.obj[i].start.node, blocks), W.obj[i].map)
        : blocks \in {W.obj[i].finish.node - W.obj[i].start.node + 1} })
    : W \in {W0} })

\* for (it = from; it != to; ++it) destroy(addressof(*it))
RECURSIVE DestroyRange(_, _, _)
DestroyRange(W0, it0, to) ==
    The({
        IF ~Ok(W) \/ operator_eq(it, to) THEN W
        ELSE DestroyRange(Destroy(W, it.cur), operator_inc(W, it), to)
    : W \in {W0}, it \in {it0} })

\* the destroy loop over [begin, end), compiled out for a trivially destructible T
DestroyAll(W0, i) ==
    The({
        IF W.cfg.trivial THEN W ELSE DestroyRange(W, W.obj[i].start, W.obj[i].finish)
    : W \in {W0} })

\* -------------------------------------------------------- deque members
NewObj(W, i, a) ==
    [W EXCEPT !.obj[i] = [st |-> "alive", map |-> NullPtr, map_size |-> 0,
                          start |-> NullIt, finish |-> NullIt, alloc |-> a]]

SetFinish(W0, i, it) ==
    The({ IF Ok(W) THEN [W EXCEPT !.obj[i].finish = it] ELSE W : W \in {W0} })

SetStart(W0, i, it) ==
    The({ IF Ok(W) THEN [W EXCEPT !.obj[i].start = it] ELSE W : W \in {W0} })

Ret(W0, it) ==
    The({ IF Ok(W) THEN [W EXCEPT !.ret = it] ELSE W : W \in {W0} })

\* deque(const allocator_type&)
deque_default(W, i, a) == _initialize_map(NewObj(W, i, a), i, 0)

\* ~deque
Dead(W0, i) ==
    The({ IF Ok(W) THEN [W EXCEPT !.obj[i].st = "dead"] ELSE W : W \in {W0} })

deque_dtor(W, i) == Dead(_deallocate_all_blocks(DestroyAll(W, i), i), i)

\* a slow-path target slot is spare when it lies inside the map, outside the
\* occupied range [_start._node, _finish._node], and names no live block
SpareSlot(W, i, n) ==
    /\ W.obj[i].map <= n /\ n < W.obj[i].map + W.obj[i].map_size
    /\ ValidNode(W, n)
    /\ ~(W.obj[i].start.node <= n /\ n <= W.obj[i].finish.node)
    /\ ~LiveBlock(W, BlkOf(ReadSlot(W, n)))

\* *new_node = allocate(buffer_size()), with the target slot recorded
SlowWrite(W0, i, n) ==
    The({
        IF ~Ok(a.w) THEN a.w
        ELSE WriteSlot([a.w EXCEPT !.stats.slow = TRUE,
                                   !.stats.slowbad = @ \/ ~SpareSlot(a.w, i, n)], n, a.p)
    : a \in {AllocBlock(W0)} })

\* --_start._cur
DecStart(W0, i) ==
    The({ IF Ok(W) THEN [W EXCEPT !.obj[i].start.cur = @ - 1] ELSE W : W \in {W0} })

\* ++_finish._cur
IncFinish(W0, i) ==
    The({ IF Ok(W) THEN [W EXCEPT !.obj[i].finish.cur = @ + 1] ELSE W : W \in {W0} })

\* construct at _start._cur - 1; --_start._cur
PutFront(W0, i, v) ==
    The({ DecStart(Construct(W, W.obj[i].start.cur - 1, v), i) : W \in {W0} })

\* construct at _finish._cur; ++_finish._cur
PutBack(W0, i, v) ==
    The({ IncFinish(Construct(W, W.obj[i].finish.cur, v), i) : W \in {W0} })

\* _start on the last slot of the block in slot n, the element built there,
\* then --_start._cur
NewFront(W0, i, n, v) ==
    The({
        IF ~Ok(W) THEN W
        ELSE The({ DecStart(Construct([W EXCEPT !.obj[i].start = c], c.cur, v), i)
             : c \in {Cursor(W, n, buffer_size - 1)} })
    : W \in {W0} })

\* _finish on the first slot of the block in slot n, the element built there
NewBack(W0, i, n, v) ==
    The({
        IF ~Ok(W) THEN W
        ELSE PutBack([W EXCEPT !.obj[i].finish = Cursor(W, n, 0)], i, v)
    : W \in {W0} })

FrontSlow(W0, i, v) ==
    The({ NewFront(SlowWrite(W, i, W.obj[i].start.node - 1), i,
                   W.obj[i].start.node - 1, v)
    : W \in {W0} })

BackSlow(W0, i, v) ==
    The({ NewBack(SlowWrite(W, i, W.obj[i].finish.node + 1), i,
                  W.obj[i].finish.node + 1, v)
    : W \in {W0} })

emplace_front(W0, i, v) ==
    The({
        IF ~Ok(W) THEN W
        ELSE IF W.obj[i].start.cur # W.obj[i].start.first THEN PutFront(W, i, v)
        ELSE IF W.obj[i].start.node = W.obj[i].map
             THEN FrontSlow(_reallocate_map(W, i, 1, 0), i, v)
        ELSE FrontSlow(W, i, v)
    : W \in {W0} })

emplace_back(W0, i, v) ==
    The({
        IF ~Ok(W) THEN W
        ELSE IF W.obj[i].finish.cur # W.obj[i].finish.last THEN PutBack(W, i, v)
        ELSE IF W.obj[i].finish.node + 1 = W.obj[i].map + W.obj[i].map_size - 1
             THEN BackSlow(_reallocate_map(W, i, 0, 1), i, v)
        ELSE BackSlow(W, i, v)
    : W \in {W0} })

\* for (i = 0; i < count; ++i, ++it) construct(addressof(*it), value)
RECURSIVE FillLoop(_, _, _, _)
FillLoop(W0, it0, k, v) ==
    The({
        IF k <= 0 \/ ~Ok(W) THEN [w |-> W, it |-> it]
        ELSE The({
            IF Ok(W1) THEN FillLoop(W1, operator_inc(W1, it), k - 1, v)
            ELSE [w |-> W1, it |-> it]
        : W1 \in {Construct(W, it.cur, v)} })
    : W \in {W0}, it \in {it0} })

\* for (v : init) { construct(addressof(*it), v); ++it; }
RECURSIVE CopyLoop(_, _, _, _)
CopyLoop(W0, it0, s, k) ==
    The({
        IF k > Len(s) \/ ~Ok(W) THEN [w |-> W, it |-> it]
        ELSE The({
            IF Ok(W1) THEN CopyLoop(W1, operator_inc(W1, it), s, k + 1)
            ELSE [w |-> W1, it |-> it]
        : W1 \in {Construct(W, it.cur, s[k])} })
    : W \in {W0}, it \in {it0} })

\* a block count rounded down instead of up
FloorBlocks(n) == n \div buffer_size

\* nblocks = count ? (count + buf_sz - 1) / buf_sz : 0
NBlocks(n) == IF n # 0 THEN (n + buffer_size - 1) \div buffer_size ELSE 0

\* _finish = it, after a loop that returned the world and its cursor
FinishAt(r0, i) == The({ SetFinish(r.w, i, r.it) : r \in {r0} })

\* the fill loop from _start
FillFromStart(W0, i, count, v) ==
    The({ FillLoop(W, W.obj[i].start, count, v) : W \in {W0} })

\* the copy loop from _start
CopyFromStart(W0, i, s) ==
    The({ CopyLoop(W, W.obj[i].start, s, 1) : W \in {W0} })

\* deque(size_type count) and deque(size_type count, const T& value)
deque_count(W, i, a, count, v) ==
    FinishAt(FillFromStart(_initialize_map(NewObj(W, i, a), i, NBlocks(count)),
                           i, count, v), i)

\* for (; first != last; ++first) emplace_back(*first)
RECURSIVE EmplaceBackAll(_, _, _, _)
EmplaceBackAll(W0, i, s, k) ==
    The({
        IF k > Len(s) \/ ~Ok(W) THEN W
        ELSE EmplaceBackAll(emplace_back(W, i, s[k]), i, s, k + 1)
    : W \in {W0} })

\* deque(InputIt first, InputIt last)
deque_range(W, i, a, s) ==
    EmplaceBackAll(_initialize_map(NewObj(W, i, a), i, 0), i, s, 1)

\* deque(std::initializer_list<T>)
deque_ilist(W, i, a, s) ==
    FinishAt(CopyFromStart(_initialize_map(NewObj(W, i, a), i, NBlocks(Len(s))), i, s), i)

\* the blocks behind the first one go back to the allocator; _finish = _start
DropTail(W0, i) ==
    The({
        IF ~Ok(W) THEN W
        ELSE The({ SetFinish(W1, i, W1.obj[i].start)
             : W1 \in {IF W.obj[i].start.node # W.obj[i].finish.node
                       THEN FreeNodes(W, W.obj[i].start.node + 1,
                                      W.obj[i].finish.node - W.obj[i].start.node)
                       ELSE W} })
    : W \in {W0} })

\* deque::clear
clear(W, i) == DropTail(DestroyAll(W, i), i)

\* std::size_t of a pointer difference: a negative value wraps
SizeMod == 2 ^ 20
SizeT(x) == IF x < 0 THEN x + SizeMod ELSE x

\* *dst = std::move(*src)
MoveElem(W0, dst, src) ==
    The({
        IF ~Ok(W) THEN W
        ELSE IF ~ValidElem(W, src) THEN [W EXCEPT !.fault = "wild_read"]
        ELSE WriteElem(W, dst, ReadElem(W, src))
    : W \in {W0} })

\* *p = v for a trivially assignable T, destroy(p) + construct(p, v) otherwise
Assign(W0, p, v) ==
    The({
        IF W.cfg.trivial THEN WriteElem(W, p, v) ELSE Construct(Destroy(W, p), p, v)
    : W \in {W0} })

\* for (it = from; it != to; ++it) construct(addressof(*it), v)
RECURSIVE FillRange(_, _, _, _)
FillRange(W0, it0, to, v) ==
    The({
        IF ~Ok(W) \/ operator_eq(it, to) THEN W
        ELSE FillRange(Construct(W, it.cur, v), operator_inc(W, it), to, v)
    : W \in {W0}, it \in {it0} })

\* for (it = from; it != to; ++it, ++first) construct(addressof(*it), *first)
RECURSIVE CopyRange(_, _, _, _, _)
CopyRange(W0, it0, to, s, k) ==
    The({
        IF ~Ok(W) \/ operator_eq(it, to) THEN [w |-> W, k |-> k]
        ELSE IF k > Len(s) THEN [w |-> Fault(W, "input_overrun"), k |-> k]
        ELSE CopyRange(Construct(W, it.cur, s[k]), operator_inc(W, it), to, s, k + 1)
    : W \in {W0}, it \in {it0} })

RECURSIVE EmplaceBackN(_, _, _, _)
EmplaceBackN(W0, i, k, v) ==
    The({
        IF k <= 0 \/ ~Ok(W) THEN W ELSE EmplaceBackN(emplace_back(W, i, v), i, k - 1, v)
    : W \in {W0} })

RECURSIVE EmplaceFrontN(_, _, _, _)
EmplaceFrontN(W0, i, k, v) ==
    The({
        IF k <= 0 \/ ~Ok(W) THEN W ELSE EmplaceFrontN(emplace_front(W, i, v), i, k - 1, v)
    : W \in {W0} })

\* destroy [new_finish, _finish), free the blocks behind new_finish's
DropFrom(W0, i, new_finish) ==
    The({
        SetFinish(FreeNodes(IF W.cfg.trivial THEN W
                            ELSE DestroyRange(W, new_finish, W.obj[i].finish),
                            new_finish.node + 1,
                            W.obj[i].finish.node - new_finish.node),
                  i, new_finish)
    : W \in {W0} })

\* the tail of both assign overloads when the deque already holds enough
ShrinkTo(W0, i, count) ==
    The({
        IF ~Ok(W) THEN W
        ELSE The({ DropFrom(W, i, new_finish)
             : new_finish \in {operator_plus(W, W.obj[i].start, count)} })
    : W \in {W0} })

\* deque::assign(size_type count, const T& value)
assign(W0, i, count, v) ==
    The({
        IF SizeT(size(W, i)) >= count
        THEN ShrinkTo(FillLoop(W, W.obj[i].start, count, v).w, i, count)
        ELSE EmplaceBackN(FillRange(W, W.obj[i].start, W.obj[i].finish, v), i,
                          count - SizeT(size(W, i)), v)
    : W \in {W0} })

\* the emplace_back loop over what the copy loop left of the input
EmplaceRest(r0, i, s) == The({ EmplaceBackAll(r.w, i, s, r.k) : r \in {r0} })

\* deque::assign(InputIt first, InputIt last); ra: random access iterators
assign_range(W0, i, s, ra) ==
    The({
        IF ~ra THEN EmplaceBackAll(clear(W, i), i, s, 1)
        ELSE IF SizeT(size(W, i)) >= Len(s)
        THEN ShrinkTo(CopyLoop(W, W.obj[i].start, s, 1).w, i, Len(s))
        ELSE EmplaceRest(CopyRange(W, W.obj[i].start, W.obj[i].finish, s, 1), i, s)
    : W \in {W0} })

\* *new_node = allocate(buffer_size())
BlockAt(W0, n) == The({ WriteSlot(a.w, n, a.p) : a \in {AllocBlock(W0)} })

\* _start on the last slot of the block named by the slot in front of it
StartBefore(W0, i) ==
    The({
        SetStart(W, i, Cursor(W, W0.obj[i].start.node - 1, buffer_size - 1))
    : W \in {BlockAt(W0, W0.obj[i].start.node - 1)} })

\* _finish on the first slot of the block named by the slot behind it
FinishBehind(W0, i) ==
    The({
        SetFinish(W, i, Cursor(W, W0.obj[i].finish.node + 1, 0))
    : W \in {BlockAt(W0, W0.obj[i].finish.node + 1)} })

\* _insert_aux_front, no room in front: a new block in front of _start
GrowFront(W0, i) ==
    The({
        The({ StartBefore(W1, i)
        : W1 \in {IF W.obj[i].start.node = W.obj[i].map
                  THEN _reallocate_map(W, i, 1, 0) ELSE W} })
    : W \in {W0} })

\* _insert_aux_back, no room behind: a new block behind _finish
GrowBack(W0, i) ==
    The({
        The({ FinishBehind(W1, i)
        : W1 \in {IF W.obj[i].finish.node = W.obj[i].map + W.obj[i].map_size - 1
                  THEN _reallocate_map(W, i, 0, 1) ELSE W} })
    : W \in {W0} })

\* for (it = old_front; it != target; ++it, ++front_pos) *front_pos = move(*it)
RECURSIVE ShiftLeft(_, _, _, _)
ShiftLeft(W0, it0, target, front_pos0) ==
    The({
        IF ~Ok(W) \/ operator_eq(it, target) THEN [w |-> W, it |-> front_pos]
        ELSE ShiftLeft(MoveElem(W, front_pos.cur, it.cur), operator_inc(W, it), target,
                       operator_inc(W, front_pos))
    : W \in {W0}, it \in {it0}, front_pos \in {front_pos0} })

\* *result = value; return result
PutAt(r0, v) == The({ Ret(Assign(r.w, r.it.cur, v), r.it) : r \in {r0} })

_insert_aux_front(W0, i, index, v) ==
    The({
        IF ~Ok(W) THEN W
        ELSE The({
            PutAt(ShiftLeft(Construct(W, front_pos.cur, DefaultT),
                            old_front, target, front_pos), v)
        : front_pos \in {W.obj[i].start},
          old_front \in {operator_plus(W, W.obj[i].start, 1)},
          target \in {operator_plus(W, operator_plus(W, W.obj[i].start, index), 1)} })
    : W \in {IF W0.obj[i].start.cur = W0.obj[i].start.first THEN GrowFront(W0, i)
             ELSE DecStart(W0, i)} })

\* while (old_back != target) { *back_pos = move(*old_back); --back_pos; --old_back; }
RECURSIVE ShiftRight(_, _, _, _)
ShiftRight(W0, back_pos0, old_back0, target) ==
    The({
        IF ~Ok(W) \/ operator_eq(old_back, target) THEN W
        ELSE ShiftRight(MoveElem(W, back_pos.cur, old_back.cur), operator_dec(W, back_pos),
                        operator_dec(W, old_back), target)
    : W \in {W0}, back_pos \in {back_pos0}, old_back \in {old_back0} })

_insert_aux_back(W0, i, index, v) ==
    The({
        IF ~Ok(W) THEN W
        ELSE The({
            Ret(Assign(ShiftRight(IncFinish(Construct(W, back_pos.cur, DefaultT), i),
                                  back_pos, old_back, target),
                       target.cur, v), target)
        : back_pos \in {W.obj[i].finish},
          old_back \in {operator_minus(W, W.obj[i].finish, 1)},
          target \in {operator_plus(W, W.obj[i].start, index)} })
    : W \in {IF W0.obj[i].finish.cur = W0.obj[i].finish.last THEN GrowBack(W0, i)
             ELSE W0} })

\* return begin()
RetBegin(W0, i) == The({ Ret(W, W.obj[i].start) : W \in {W0} })

\* return end() - 1
RetLast(W0, i) == The({ Ret(W, operator_minus(W, W.obj[i].finish, 1)) : W \in {W0} })

\* step 5 of insert: which side moves
MoveFront(front_has_space, back_has_space, index, num_elements) ==
    IF front_has_space /\ ~back_has_space THEN TRUE
    ELSE IF ~front_has_space /\ back_has_space THEN FALSE
    ELSE index * 2 < num_elements

\* deque::insert(const_iterator pos, const T& value), pos = cbegin() + k
insert(W0, i, k, v) ==
    The({
        The({
            IF num_elements = 0 THEN RetBegin(emplace_back(W, i, v), i)
            ELSE IF index = 0 THEN RetBegin(emplace_front(W, i, v), i)
            ELSE IF index = num_elements THEN RetLast(emplace_back(W, i, v), i)
            ELSE IF MoveFront(W.obj[i].start.cur # W.obj[i].start.first,
                              W.obj[i].finish.cur # W.obj[i].finish.last,
                              index, num_elements)
                 THEN _insert_aux_front(W, i, index, v)
            ELSE _insert_aux_back(W, i, index, v)
        : index \in {operator_diff(operator_pluseq(W, W.obj[i].start, k), W.obj[i].start)},
          num_elements \in {size(W, i)} })
    : W \in {W0} })

\* for (i = 0; i < need_blocks; ++i) *(_start._node - i - 1) = allocate(buf_sz)
RECURSIVE AllocFront(_, _, _, _)
AllocFront(W0, i, k, n) ==
    The({
        IF k >= n \/ ~Ok(W) THEN W
        ELSE AllocFront(BlockAt(W, W.obj[i].start.node - k - 1), i, k + 1, n)
    : W \in {W0} })

\* for (i = 0; i < need_blocks; ++i) *(_finish._node + i + 1) = allocate(buf_sz)
RECURSIVE AllocBack(_, _, _, _)
AllocBack(W0, i, k, n) ==
    The({
        IF k >= n \/ ~Ok(W) THEN W
        ELSE AllocBack(BlockAt(W, W.obj[i].finish.node + k + 1), i, k + 1, n)
    : W \in {W0} })

\* for (it = old_front; it != target; ++it) *(it - count) = move(*it)
RECURSIVE ShiftLeftN(_, _, _, _)
ShiftLeftN(W0, it0, target, count) ==
    The({
        IF ~Ok(W) \/ operator_eq(it, target) THEN W
        ELSE ShiftLeftN(MoveElem(W, operator_minus(W, it, count).cur, it.cur),
                        operator_inc(W, it), target, count)
    : W \in {W0}, it \in {it0} })

\* for (it = old_back - 1; it >= target; --it) *(it + count) = move(*it)
RECURSIVE ShiftRightN(_, _, _, _)
ShiftRightN(W0, it0, target, count) ==
    The({
        IF ~Ok(W) \/ ~operator_ge(it, target) THEN W
        ELSE ShiftRightN(MoveElem(W, operator_plus(W, it, count).cur, it.cur),
                         operator_dec(W, it), target, count)
    : W \in {W0}, it \in {it0} })

\* for (i = 0; i < count; ++i) *(result + i) = value
RECURSIVE PutN(_, _, _, _, _)
PutN(W0, result, k, count, v) ==
    The({
        IF k >= count \/ ~Ok(W) THEN W
        ELSE PutN(Assign(W, operator_plus(W, result, k).cur, v), result, k + 1, count, v)
    : W \in {W0} })

\* _start moved need_blocks slots forward, onto the slot the new elements begin at
StartAt(W0, i, need_blocks, need_spaces) ==
    The({
        IF ~Ok(W) THEN W
        ELSE The({
            SetStart(W, i, IF c.cur = c.last THEN [c EXCEPT !.cur = c.first] ELSE c)
        : c \in {Cursor(W, W.obj[i].start.node - need_blocks,
                        buffer_size - (need_spaces % buffer_size))} })
    : W \in {W0} })

\* _finish moved need_blocks slots back
FinishAtBlock(W0, i, need_blocks, need_spaces) ==
    The({
        IF ~Ok(W) THEN W
        ELSE SetFinish(W, i, Cursor(W, W.obj[i].finish.node + need_blocks,
                                    need_spaces % buffer_size))
    : W \in {W0} })

\* room for count elements in front of _start
RoomFront(W0, i, count) ==
    The({
        IF W.obj[i].start.cur - W.obj[i].start.first >= count
        THEN [W EXCEPT !.obj[i].start.cur = @ - count]
        ELSE The({
            StartAt(AllocFront(IF W.obj[i].start.node - W.obj[i].map < need_blocks
                               THEN _reallocate_map(W, i, need_blocks, 0) ELSE W,
                               i, 0, need_blocks),
                    i, need_blocks, need_spaces)
        : need_spaces \in {count - (W.obj[i].start.cur - W.obj[i].start.first)},
          need_blocks \in {(count - (W.obj[i].start.cur - W.obj[i].start.first)
                            + buffer_size - 1) \div buffer_size} })
    : W \in {W0} })

\* room for count elements behind _finish
RoomBack(W0, i, count) ==
    The({
        IF W.obj[i].finish.last - W.obj[i].finish.cur >= count
        THEN [W EXCEPT !.obj[i].finish.cur = @ + count]
        ELSE The({
            FinishAtBlock(AllocBack(IF W.obj[i].map + W.obj[i].map_size - 1
                                       - W.obj[i].finish.node < need_blocks
                                    THEN _reallocate_map(W, i, 0, need_blocks) ELSE W,
                                    i, 0, need_blocks),
                          i, need_blocks, need_spaces)
        : need_spaces \in {count - (W.obj[i].finish.last - W.obj[i].finish.cur)},
          need_blocks \in {(count - (W.obj[i].finish.last - W.obj[i].finish.cur)
                            + buffer_size - 1) \div buffer_size} })
    : W \in {W0} })

\* iterator result = target - count; the fill loop; return result
PutFrom(W0, target, count, v) ==
    The({
        IF ~Ok(W) THEN W
        ELSE The({ Ret(PutN(W, result, 0, count, v), result)
             : result \in {operator_minus(W, target, count)} })
    : W \in {W0} })

_insert_aux_front_n(W0, i, index, count, v) ==
    The({
        IF ~Ok(W) THEN W
        ELSE The({
            PutFrom(ShiftLeftN(FillRange(W, W.obj[i].start, old_front, DefaultT),
                               old_front, target, count),
                    target, count, v)
        : old_front \in {operator_plus(W, W.obj[i].start, count)},
          target \in {operator_plus(W, operator_plus(W, W.obj[i].start, index), count)} })
    : W \in {RoomFront(W0, i, count)} })

\* the shift loop from old_back - 1 down to target
ShiftBack(W0, old_back, target, count) ==
    The({ ShiftRightN(W, operator_minus(W, old_back, 1), target, count) : W \in {W0} })

_insert_aux_back_n(W0, i, index, count, v) ==
    The({
        IF ~Ok(W) THEN W
        ELSE The({
            Ret(PutN(ShiftBack(FillRange(W, old_back, W.obj[i].finish, DefaultT),
                               old_back, target, count),
                     target, 0, count, v), target)
        : old_back \in {operator_minus(W, W.obj[i].finish, count)},
          target \in {operator_plus(W, W.obj[i].start, index)} })
    : W \in {RoomBack(W0, i, count)} })

\* deque::insert(const_iterator pos, size_type count, const T& value)
insert_n(W0, i, k, count, v) ==
    The({
        The({
            IF count = 0 THEN Ret(W, operator_plus(W, W.obj[i].start, index))
            ELSE IF num_elements = 0 THEN RetBegin(EmplaceBackN(W, i, count, v), i)
            ELSE IF index = 0 THEN RetBegin(EmplaceFrontN(W, i, count, v), i)
            ELSE IF index = num_elements
                 THEN Ret(EmplaceBackN(W, i, count, v), W.obj[i].finish)
            ELSE IF MoveFront(W.obj[i].start.cur - W.obj[i].start.first >= count,
                              W.obj[i].finish.last - W.obj[i].finish.cur >= count,
                              index, num_elements)
                 THEN _insert_aux_front_n(W, i, index, count, v)
            ELSE _insert_aux_back_n(W, i, index, count, v)
        : index \in {operator_diff(operator_pluseq(W, W.obj[i].start, k), W.obj[i].start)},
          num_elements \in {size(W, i)} })
    : W \in {W0} })

\* for (src = from; src != to; ++src, ++dst) construct(addressof(*dst), *src)
RECURSIVE TransferRange(_, _, _, _)
TransferRange(W0, src0, to, dst0) ==
    The({
        IF ~Ok(W) \/ operator_eq(src, to) THEN [w |-> W, it |-> dst]
        ELSE IF ~ValidElem(W, src.cur) THEN [w |-> Fault(W, "wild_read"), it |-> dst]
        ELSE The({
            IF Ok(W1)
            THEN TransferRange(W1, operator_inc(W1, src), to, operator_inc(W1, dst))
            ELSE [w |-> W1, it |-> dst]
        : W1 \in {Construct(W, dst.cur, ReadElem(W, src.cur))} })
    : W \in {W0}, src \in {src0}, dst \in {dst0} })

\* mystl::distance(first, last) for random access iterators
distance(from, to) == operator_diff(to, from)

\* take over other's map, blocks and cursors; other is left null
Steal(W0, i, j) ==
    The({
        IF ~Ok(W) THEN W
        ELSE [W EXCEPT !.obj[i].map = W.obj[j].map,
                       !.obj[i].map_size = W.obj[j].map_size,
                       !.obj[i].start = W.obj[j].start,
                       !.obj[i].finish = W.obj[j].finish,
                       !.obj[j].map = NullPtr,
                       !.obj[j].map_size = 0,
                       !.obj[j].start = NullIt,
                       !.obj[j].finish = NullIt]
    : W \in {W0} })

\* other._map = nullptr; other._map_size = 0; other._start = other._finish = iterator()
ResetOther(W0, j) ==
    The({
        IF ~Ok(W) THEN W
        ELSE [W EXCEPT !.obj[j].map = NullPtr, !.obj[j].map_size = 0,
                       !.obj[j].start = NullIt, !.obj[j].finish = NullIt]
    : W \in {W0} })

\* the element loop from other into this
TransferFrom(W0, i, j) ==
    The({ TransferRange(W, W.obj[j].start, W.obj[j].finish, W.obj[i].start) : W \in {W0} })

\* _finish = _start; _finish += n
FinishPlus(r0, i, n) ==
    The({ SetFinish(r.w, i, operator_pluseq(r.w, r.w.obj[i].start, n)) : r \in {r0} })

\* the destroy loop over other, other._deallocate_all_blocks(), other reset
Gut(W0, j, always) ==
    The({
        ResetOther(_deallocate_all_blocks(
                       IF always \/ ~W.cfg.trivial
                       THEN DestroyRange(W, W.obj[j].start, W.obj[j].finish) ELSE W,
                       j), j)
    : W \in {W0} })

\* deque(const deque& other)
deque_copy(W0, i, j) ==
    The({
        FinishPlus(TransferFrom(_initialize_map(NewObj(W0, i, W0.obj[j].alloc), i, NBlocks(n)),
                                i, j), i, n)
    : n \in {SizeT(operator_diff(W0.obj[j].finish, W0.obj[j].start))} })

\* deque(deque&& other)
deque_move(W0, i, j) ==
    The({
        IF W.obj[j].alloc = W.obj[i].alloc THEN Steal(W, i, j)
        ELSE The({
            Gut(FinishPlus(TransferFrom(_initialize_map(W, i, NBlocks(n)), i, j), i, n),
                j, FALSE)
        : n \in {SizeT(operator_diff(W.obj[j].finish, W.obj[j].start))} })
    : W \in {NewObj(W0, i, W0.obj[j].alloc)} })

\* deque(deque&& other, const allocator_type& alloc)
deque_move_alloc(W0, i, j, a) ==
    The({
        IF a = W.obj[j].alloc THEN Steal(W, i, j)
        ELSE The({
            Gut(FinishAt(TransferFrom(_initialize_map(W, i, NBlocks(n)), i, j), i), j, TRUE)
        : n \in {SizeT(operator_diff(W.obj[j].finish, W.obj[j].start))} })
    : W \in {NewObj(W0, i, a)} })

\* the else branch shared by the assignments: this emptied, a new map for n
\* elements, the element loop, _finish = it
Refill(W0, i, j, n) ==
    FinishAt(TransferFrom(_initialize_map(_deallocate_all_blocks(DestroyAll(W0, i), i),
                                          i, NBlocks(n)), i, j), i)

\* deque& operator=(const deque& other)
copy_assign(W0, i, j) ==
    The({
        IF i = j THEN W
        ELSE Refill(W, i, j, SizeT(distance(W.obj[j].start, W.obj[j].finish)))
    : W \in {W0} })

\* deque& operator=(deque&& other)
move_assign(W0, i, j) ==
    The({
        IF i = j THEN W
        ELSE IF W.obj[i].alloc = W.obj[j].alloc
        THEN Steal(_deallocate_all_blocks(DestroyAll(W, i), i), i, j)
        ELSE Gut(Refill(W, i, j, SizeT(distance(W.obj[j].start, W.obj[j].finish))), j, TRUE)
    : W \in {W0} })

\* deque& operator=(std::initializer_list<value_type> ilist)
ilist_assign(W0, i, s) ==
    FinishAt(CopyFromStart(_initialize_map(_deallocate_all_blocks(DestroyAll(W0, i), i),
                                           i, NBlocks(Len(s))), i, s), i)

\* deque::operator[]: *(_start + pos), read through operator+'s result
subscript(W0, i, pos) ==
    The({
        IF ~Ok(W) THEN W
        ELSE The({
            IF ValidElem(W, it.cur) THEN Ret(W, ReadElem(W, it.cur))
            ELSE Fault(W, "wild_read")
        : it \in {operator_plus(W, W.obj[i].start, pos)} })
    : W \in {W0} })

\* deque::at: std::out_of_range when pos >= size(), operator[](pos) otherwise
at(W0, i, pos) ==
    The({
        IF ~Ok(W) THEN W
        ELSE IF pos >= SizeT(size(W, i)) THEN [W EXCEPT !.thrown = TRUE]
        ELSE subscript(W, i, pos)
    : W \in {W0} })

\* deque::back: *(_finish - 1)
back(W0, i) ==
    The({ IF ~Ok(W) THEN W
          ELSE The({ IF ValidElem(W, it.cur) THEN Ret(W, ReadElem(W, it.cur))
                     ELSE Fault(W, "wild_read")
               : it \in {operator_minus(W, W.obj[i].finish, 1)} })
    : W \in {W0} })

\* ----------------------------------------------- deque::reverse_iterator
\* deque::empty: _start == _finish
empty(W, i) == operator_eq(W.obj[i].start, W.obj[i].finish)

\* deque::rbegin: the members of _finish with _cur one slot back
rbegin(W, i) ==
    IF empty(W, i) THEN NullIt ELSE [W.obj[i].finish EXCEPT !.cur = @ - 1]

\* deque::rend: the members of _start with _cur one slot back
rend(W, i) ==
    IF empty(W, i) THEN NullIt ELSE [W.obj[i].start EXCEPT !.cur = @ - 1]

\* reverse_iterator::operator++
reverse_inc(W, it) ==
    IF it.cur = it.first THEN Cursor(W, it.node - 1, buffer_size - 1)
    ELSE [it EXCEPT !.cur = @ - 1]

\* reverse_iterator::operator--
reverse_dec(W, it) ==
    IF it.cur = it.last - 1 THEN Cursor(W, it.node + 1, 0)
    ELSE [it EXCEPT !.cur = @ + 1]

\* reverse_iterator::operator+=
reverse_pluseq(W, it, n) ==
    The({
        IF CMod(offset, buffer_size) < 0
        THEN Cursor(W, it.node + CDiv(offset, buffer_size) - 1,
                    CMod(offset, buffer_size) + buffer_size)
        ELSE Cursor(W, it.node + CDiv(offset, buffer_size), CMod(offset, buffer_size))
    : offset \in {(it.cur - it.first) - n} })

\* reverse_iterator::operator+ returns its local tmp by value
reverse_plus(W, it, n) == reverse_pluseq(W, it, n)

\* *(d.rbegin() + k)
reverse_at(W0, i, k) ==
    The({
        IF ~Ok(W) THEN W
        ELSE The({
            IF ValidElem(W, it.cur) THEN Ret(W, ReadElem(W, it.cur))
            ELSE Fault(W, "wild_read")
        : it \in {reverse_plus(W, rbegin(W, i), k)} })
    : W \in {W0} })

\* for (rit = d.rbegin(); rit != d.rend(); ++rit) yield *rit
RECURSIVE ReverseWalkFrom(_, _, _, _)
ReverseWalkFrom(W, it0, to, acc0) ==
    The({
        IF operator_eq(it, to) THEN [ok |-> TRUE, vals |-> acc]
        ELSE IF ~ValidElem(W, it.cur) THEN [ok |-> FALSE, vals |-> acc]
        ELSE ReverseWalkFrom(W, reverse_inc(W, it), to, Append(acc, ReadElem(W, it.cur)))
    : it \in {it0}, acc \in {acc0} })

reverse_walk(W0, i) ==
    The({ IF ~Ok(W) THEN W
          ELSE Ret(W, ReverseWalkFrom(W, rbegin(W, i), rend(W, i), << >>))
    : W \in {W0} })

\* rit = d.rbegin() + k; ++rit; --rit
reverse_inc_dec(W0, i, k) ==
    The({ IF ~Ok(W) THEN W
          ELSE The({ Ret(W, [at |-> it, back |-> reverse_dec(W, reverse_inc(W, it))])
               : it \in {reverse_plus(W, rbegin(W, i), k)} })
    : W \in {W0} })

\* ------------------------------------------------- iterators in use
\* ++it, n times for n > 0; --it, -n times for n < 0
RECURSIVE Stepped(_, _, _)
Stepped(W, it0, n) ==
    The({
        IF n = 0 THEN it
        ELSE IF n > 0 THEN Stepped(W, operator_inc(W, it), n - 1)
        ELSE Stepped(W, operator_dec(W, it), n + 1)
    : it \in {it0} })

\* the ways a caller comes by an iterator on index x: begin() stepped
\* forward, end() stepped back, and it = begin(); it += x
Hows == {"step", "back", "jump"}
IterAt(W, i, how, x) ==
    IF how = "step" THEN Stepped(W, W.obj[i].start, x)
    ELSE IF how = "back" THEN Stepped(W, W.obj[i].finish, x - size(W, i))
    ELSE operator_pluseq(W, W.obj[i].start, x)

\* q = p; ++q; r = q; --r
iter_inc_dec(W0, i, how, x) ==
    The({ IF ~Ok(W) THEN W
          ELSE The({ Ret(W, [how |-> how, x |-> x, p |-> p, q |-> operator_inc(W, p),
                             r |-> operator_dec(W, operator_inc(W, p))])
               : p \in {IterAt(W, i, how, x)} })
    : W \in {W0} })

\* a = it; a += n, against it stepped n times
iter_pluseq(W0, i, how, x, n) ==
    The({ IF ~Ok(W) THEN W
          ELSE The({ Ret(W, [how |-> how, x |-> x, n |-> n, it |-> it,
                             jumped |-> operator_pluseq(W, it, n),
                             stepped |-> Stepped(W, it, n)])
               : it \in {IterAt(W, i, how, x)} })
    : W \in {W0} })

\* it2 - it1, it1 - it2 and (it1 + n) - it1
iter_diff(W0, i, how1, x1, how2, x2) ==
    The({ IF ~Ok(W) THEN W
          ELSE The({ Ret(W, [how1 |-> how1, x1 |-> x1, how2 |-> how2, x2 |-> x2,
                             d21 |-> operator_diff(it2, it1),
                             d12 |-> operator_diff(it1, it2),
                             plus |-> operator_diff(operator_plus(W, it1, x2 - x1), it1)])
               : it1 \in {IterAt(W, i, how1, x1)}, it2 \in {IterAt(W, i, how2, x2)} })
    : W \in {W0} })

\* a < b, a > b, a <= b, a >= b and a - b
iter_compare(W0, i, how1, x1, how2, x2) ==
    The({ IF ~Ok(W) THEN W
          ELSE The({ Ret(W, [how1 |-> how1, x1 |-> x1, how2 |-> how2, x2 |-> x2,
                             lt |-> operator_lt(a, b), gt |-> operator_gt(a, b),
                             le |-> operator_le(a, b), ge |-> operator_ge(a, b),
                             diff |-> operator_diff(a, b)])
               : a \in {IterAt(W, i, how1, x1)}, b \in {IterAt(W, i, how2, x2)} })
    : W \in {W0} })

\* ------------------------------------------------------------ observers
\* for (it = begin(); it != end(); ++it) yield *it
RECURSIVE WalkFrom(_, _, _, _)
WalkFrom(W, it0, to, acc0) ==
    The({
        IF operator_eq(it, to) THEN [ok |-> TRUE, vals |-> acc]
        ELSE IF ~ValidElem(W, it.cur) THEN [ok |-> FALSE, vals |-> acc]
        ELSE WalkFrom(W, operator_inc(W, it), to, Append(acc, ReadElem(W, it.cur)))
    : it \in {it0}, acc \in {acc0} })

Walk(W, i) == WalkFrom(W, W.obj[i].start, W.obj[i].finish, << >>)

\* what a caller can see of object i: size(), the walk from begin() to end(),
\* and the members
Snap(W, i) == [sz |-> size(W, i), walk |-> Walk(W, i), d |-> W.obj[i]]

Now == World(0)

\* ----------------------------------------------------------- the machine
\* ----------------------------------------------------------- vector heap
\* a vector's three pointers: the buffer _start names, and _finish and
\* _end_of_storage as offsets from _start
VecIds == 1..3
TmpVec == 3
BufIds == 1..MaxBufs
NullVec == [st |-> "unborn", start |-> NullPtr, fin |-> 0, eos |-> 0]
NoVec == [v |-> [i \in VecIds |-> NullVec],
          heap |-> [b \in BufIds |-> [st |-> "unused", data |-> << >>]]]

\* no member function is running
NoCall == [op |-> "none", o |-> 0, n |-> 0, tail |-> FALSE, depth |-> 0, turn |-> 0]

Unborn == [st |-> "unborn", map |-> NullPtr, map_size |-> 0,
           start |-> NullIt, finish |-> NullIt, alloc |-> 0]

NoSnap == [sz |-> 0, walk |-> [ok |-> TRUE, vals |-> << >>], d |-> Unborn]

\* what the build and the platform fix: whether T is trivial, what a read of a
\* dead temporary yields, what raw memory holds, whether T's destructor run on
\* a slot that holds no object does harm; and how many calls a run makes
Configs(budget) ==
    [trivial : BOOLEAN, dangle : BOOLEAN, junk : {NullPtr, WildPtr}, dead : BOOLEAN,
     budget : {budget}]

InitAny(budget) ==
    /\ obj = [i \in Objs |-> Unborn]
    /\ maps = [m \in MapIds |-> [st |-> "unused", frees |-> 0, slots |-> << >>]]
    /\ blk = [b \in BlkIds |-> [st |-> "unused", frees |-> 0, data |-> << >>]]
    /\ fault = "none"
    /\ cfg \in Configs(budget)
    /\ nops = 0
    /\ stats = [nalloc |-> 0, nullfree |-> 0, badfree |-> 0, slow |-> FALSE,
                slowbad |-> FALSE]
    /\ last = [op |-> "none", o |-> 0, src |-> 0, n |-> 0, v |-> 0, s |-> << >>,
               thrown |-> FALSE, ret |-> NullIt, pre |-> NoSnap, presrc |-> NoSnap,
               nalloc0 |-> 0]
    /\ hist = << >>
    /\ vec = NoVec
    /\ call = NoCall

\* the deque never runs a destructor on a slot it knows to be empty
InitWith(budget) == InitAny(budget) /\ ~cfg.dead

Init == InitWith(MaxOps)

\* one call of a member function: the world it leaves, and what was called
Commit(W0, op, o, src, n, v, s) ==
    \E W \in {W0} :
        /\ ~W.oom
        /\ obj' = W.obj
        /\ maps' = W.maps
        /\ blk' = W.blk
        /\ fault' = W.fault
        /\ stats' = W.stats
        /\ nops' = nops + 1
        /\ last' = [op |-> op, o |-> o, src |-> src, n |-> n, v |-> v, s |-> s,
                    thrown |-> W.thrown, ret |-> W.ret, pre |-> Snap(Now, o),
                    presrc |-> IF src = 0 THEN NoSnap ELSE Snap(Now, src),
                    nalloc0 |-> stats.nalloc]
        /\ hist' = Append(hist, op)
        /\ UNCHANGED << cfg, vec, call >>

\* a constructor that throws leaves no object behind
Built(W0, i) ==
    The({ IF W.thrown THEN [W EXCEPT !.obj[i].st = "failed"] ELSE W : W \in {W0} })

CanCall == fault = "none" /\ nops < cfg.budget /\ call.op = "none"
Alive(i) == obj[i].st = "alive"
Fresh(i) == obj[i].st = "unborn"
\* the value the next call passes: distinct from every input element and from
\* the values of earlier calls
NewVal == MaxCount + 1 + nops

CtorDefault(i, f) ==
    /\ CanCall /\ Fresh(i) /\ i = 1
    /\ Commit(Built(deque_default(World(f), i, 1), i), "ctor_default", i, 0, 0, 0, << >>)

CtorCount(i, n, f) ==
    /\ CanCall /\ Fresh(i) /\ i = 1
    /\ Commit(Built(deque_count(World(f), i, 1, n, DefaultT), i),
              "ctor_count", i, 0, n, DefaultT, << >>)

CtorFill(i, n, f) ==
    /\ CanCall /\ Fresh(i) /\ i = 1
    /\ Commit(Built(deque_count(World(f), i, 1, n, NewVal), i),
              "ctor_fill", i, 0, n, NewVal, << >>)

CtorRange(i, n, f) ==
    /\ CanCall /\ Fresh(i) /\ i = 1
    /\ Commit(Built(deque_range(World(f), i, 1, InputSeq(n)), i),
              "ctor_range", i, 0, n, 0, InputSeq(n))

CtorIlist(i, n, a, f) ==
    /\ CanCall /\ Fresh(i) /\ (i = 1 => a = 1)
    /\ Commit(Built(deque_ilist(World(f), i, a, InputSeq(n)), i),
              "ctor_ilist", i, 0, n, 0, InputSeq(n))

CtorCopy(i, j, f) ==
    /\ CanCall /\ Fresh(i) /\ Alive(j)
    /\ Commit(Built(deque_copy(World(f), i, j), i), "ctor_copy", i, j, 0, 0, << >>)

CtorMove(i, j, f) ==
    /\ CanCall /\ Fresh(i) /\ Alive(j)
    /\ Commit(Built(deque_move(World(f), i, j), i), "ctor_move", i, j, 0, 0, << >>)

CtorMoveAlloc(i, j, a, f) ==
    /\ CanCall /\ Fresh(i) /\ Alive(j)
    /\ Commit(Built(deque_move_alloc(World(f), i, j, a), i),
              "ctor_move_alloc", i, j, a, 0, << >>)

Dtor(i) ==
    /\ fault = "none" /\ Alive(i)
    /\ Commit(deque_dtor(World(0), i), "dtor", i, 0, 0, 0, << >>)

EmplaceBack(i, f) ==
    /\ CanCall /\ Alive(i)
    /\ Commit(emplace_back(World(f), i, NewVal), "emplace_back", i, 0, 0, NewVal, << >>)

EmplaceFront(i, f) ==
    /\ CanCall /\ Alive(i)
    /\ Commit(emplace_front(World(f), i, NewVal), "emplace_front", i, 0, 0, NewVal, << >>)

Clear(i) ==
    /\ CanCall /\ Alive(i)
    /\ Commit(clear(World(0), i), "clear", i, 0, 0, 0, << >>)

AssignCount(i, n, f) ==
    /\ CanCall /\ Alive(i)
    /\ Commit(assign(World(f), i, n, NewVal), "assign_count", i, 0, n, NewVal, << >>)

AssignRange(i, n, ra, f) ==
    /\ CanCall /\ Alive(i)
    /\ Commit(assign_range(World(f), i, InputSeq(n), ra),
              IF ra THEN "assign_range" ELSE "assign_input_range", i, 0, n, 0, InputSeq(n))

Insert(i, k, f) ==
    /\ CanCall /\ Alive(i) /\ obj[i].map # NullPtr
    /\ k <= SizeT(size(Now, i))
    /\ Commit(insert(World(f), i, k, NewVal), "insert", i, 0, k, NewVal, << >>)

InsertN(i, k, n, f) ==
    /\ CanCall /\ Alive(i) /\ obj[i].map # NullPtr
    /\ k <= SizeT(size(Now, i))
    /\ Commit(insert_n(World(f), i, k, n, NewVal), "insert_n", i, 0, k, NewVal, InputSeq(n))

CopyAssign(i, j, f) ==
    /\ CanCall /\ Alive(i) /\ Alive(j)
    /\ Commit(copy_assign(World(f), i, j), "copy_assign", i, j, 0, 0, << >>)

MoveAssign(i, j, f) ==
    /\ CanCall /\ Alive(i) /\ Alive(j)
    /\ Commit(move_assign(World(f), i, j), "move_assign", i, j, 0, 0, << >>)

IlistAssign(i, n, f) ==
    /\ CanCall /\ Alive(i)
    /\ Commit(ilist_assign(World(f), i, InputSeq(n)), "ilist_assign", i, 0, n, 0, InputSeq(n))

At(i, pos) ==
    /\ CanCall /\ Alive(i) /\ obj[i].map # NullPtr
    /\ Commit(at(World(0), i, pos), "at", i, 0, pos, 0, << >>)

Next ==
    \/ \E i \in Objs : CtorDefault(i, 0)
    \/ \E i \in Objs, n \in 0..MaxCount : CtorCount(i, n, 0)
    \/ \E i \in Objs, n \in 0..MaxCount : CtorFill(i, n, 0)
    \/ \E i \in Objs, n \in 0..MaxCount : CtorRange(i, n, 0)
    \/ \E i \in Objs, n \in 0..MaxCount, a \in 1..2 : CtorIlist(i, n, a, 0)
    \/ \E i, j \in Objs : CtorCopy(i, j, 0)
    \/ \E i, j \in Objs : CtorMove(i, j, 0)
    \/ \E i, j \in Objs, a \in 1..2 : CtorMoveAlloc(i, j, a, 0)
    \/ \E i \in Objs : EmplaceBack(i, 0)
    \/ \E i \in Objs : EmplaceFront(i, 0)
    \/ \E i \in Objs : Clear(i)
    \/ \E i \in Objs, n \in 0..MaxCount : AssignCount(i, n, 0)
    \/ \E i \in Objs, n \in 0..MaxCount, ra \in BOOLEAN : AssignRange(i, n, ra, 0)
    \/ \E i \in Objs, k \in 0..MaxCount : Insert(i, k, 0)
    \/ \E i \in Objs, k \in 0..MaxCount, n \in 0..MaxCount : InsertN(i, k, n, 0)
    \/ \E i, j \in Objs : CopyAssign(i, j, 0)
    \/ \E i, j \in Objs : MoveAssign(i, j, 0)
    \/ \E i \in Objs, n \in 0..MaxCount : IlistAssign(i, n, 0)
    \/ \E i \in Objs : Dtor(i)
    \/ \E i \in Objs, pos \in 0..MaxCount + 1 : At(i, pos)

Spec == Init /\ [][Next]_vars

\* ---------------------------------------------- pushes on a default deque
InitPush == InitWith(MaxPush)

NextPush ==
    \/ CtorDefault(1, 0)
    \/ EmplaceBack(1, 0)
    \/ EmplaceFront(1, 0)

SpecPush == InitPush /\ [][NextPush]_vars

\* ------------------------------------------------------------ two deques
InitTwo == InitWith(MaxOps + 1)

NextTwo ==
    \/ \E n \in 0..MaxCount : CtorIlist(1, n, 1, 0)
    \/ \E n \in 0..MaxCount : CtorRange(1, n, 0)
    \/ \E n \in 0..MaxCount, a \in 1..2 : CtorIlist(2, n, a, 0)
    \/ \E i, j \in Objs : CtorCopy(i, j, 0)
    \/ \E i, j \in Objs : CtorMove(i, j, 0)
    \/ \E i, j \in Objs, a \in 1..2 : CtorMoveAlloc(i, j, a, 0)
    \/ \E i, j \in Objs : CopyAssign(i, j, 0)
    \/ \E i, j \in Objs : MoveAssign(i, j, 0)
    \/ \E i \in Objs : Dtor(i)

SpecTwo == InitTwo /\ [][NextTwo]_vars

\* --------------------------------------------- a failing call on a deque
NextExc ==
    \/ \E n \in 0..MaxCount : CtorIlist(1, n, 1, 0)
    \/ \E n \in 0..MaxCount : CtorIlist(2, n, 1, 0)
    \/ \E f \in 1..MaxFail : EmplaceBack(1, f)
    \/ \E f \in 1..MaxFail : EmplaceFront(1, f)
    \/ \E n \in 0..MaxCount, f \in 1..MaxFail : AssignCount(1, n, f)
    \/ \E n \in 0..MaxCount, ra \in BOOLEAN, f \in 1..MaxFail : AssignRange(1, n, ra, f)
    \/ \E k \in 0..MaxCount, f \in 1..MaxFail : Insert(1, k, f)
    \/ \E f \in 1..MaxFail : CopyAssign(1, 2, f)
    \/ \E n \in 0..MaxCount, f \in 1..MaxFail : IlistAssign(1, n, f)

SpecExc == InitTwo /\ [][NextExc]_vars

\* ------------------------------------- a deque built from a count, then used
NextFill ==
    \/ \E n \in 0..MaxCount : CtorCount(1, n, 0)
    \/ \E n \in 0..MaxCount : CtorFill(1, n, 0)
    \/ \E pos \in 0..MaxCount + 1 : At(1, pos)
    \/ Clear(1)
    \/ Dtor(1)

SpecFill == Init /\ [][NextFill]_vars

\* ------------------------------- a deque whose construction can fail
NextCtor ==
    \/ \E n \in 0..MaxCount, f \in 0..MaxFail : CtorCount(1, n, f)
    \/ \E n \in 0..MaxCount, f \in 0..MaxFail : CtorFill(1, n, f)
    \/ EmplaceBack(1, 0)
    \/ Dtor(1)

InitCtor == InitWith(MaxOps + 1)

SpecCtor == InitCtor /\ [][NextCtor]_vars

\* ----------------------------------------- iterators of a deque in use
NonEmpty(i) == Alive(i) /\ obj[i].map # NullPtr /\ size(Now, i) > 0

RevAt(i, k) ==
    /\ CanCall /\ NonEmpty(i) /\ k < size(Now, i)
    /\ Commit(reverse_at(World(0), i, k), "reverse_at", i, 0, k, 0, << >>)

RevWalk(i) ==
    /\ CanCall /\ NonEmpty(i)
    /\ Commit(reverse_walk(World(0), i), "reverse_walk", i, 0, 0, 0, << >>)

RevIncDec(i, k) ==
    /\ CanCall /\ NonEmpty(i) /\ k < size(Now, i)
    /\ Commit(reverse_inc_dec(World(0), i, k), "reverse_inc_dec", i, 0, k, 0, << >>)

IncDec(i, how, x) ==
    /\ CanCall /\ NonEmpty(i) /\ x < size(Now, i)
    /\ Commit(iter_inc_dec(World(0), i, how, x), "iter_inc_dec", i, 0, x, 0, << >>)

PlusEq(i, how, x, n) ==
    /\ CanCall /\ NonEmpty(i) /\ x <= size(Now, i)
    /\ 0 <= x + n /\ x + n <= size(Now, i)
    /\ Commit(iter_pluseq(World(0), i, how, x, n), "iter_pluseq", i, 0, x, 0, << >>)

Diff(i, how1, x1, how2, x2) ==
    /\ CanCall /\ NonEmpty(i) /\ x1 <= size(Now, i) /\ x2 <= size(Now, i)
    /\ Commit(iter_diff(World(0), i, how1, x1, how2, x2), "iter_diff", i, 0, x1, 0, << >>)

Compare(i, how1, x1, how2, x2) ==
    /\ CanCall /\ NonEmpty(i) /\ x1 <= size(Now, i) /\ x2 <= size(Now, i)
    /\ Commit(iter_compare(World(0), i, how1, x1, how2, x2), "iter_compare", i, 0, x1, 0, << >>)

MaxIndex == MaxCount + 1

\* iterators move no element: the kind of T plays no part
InitIter == InitWith(MaxOps) /\ cfg.trivial

NextIter ==
    \/ \E n \in 0..MaxCount : CtorIlist(1, n, 1, 0)
    \/ \E n \in 0..MaxCount : CtorRange(1, n, 0)
    \/ EmplaceBack(1, 0)
    \/ EmplaceFront(1, 0)
    \/ \E k \in 0..MaxIndex : RevAt(1, k)
    \/ RevWalk(1)
    \/ \E k \in 0..MaxIndex : RevIncDec(1, k)
    \/ \E how \in Hows, x \in 0..MaxIndex : IncDec(1, how, x)
    \/ \E how \in Hows, x \in 0..MaxIndex, n \in -MaxIndex..MaxIndex : PlusEq(1, how, x, n)
    \/ \E how1, how2 \in Hows, x1, x2 \in 0..MaxIndex : Diff(1, how1, x1, how2, x2)
    \/ \E how1, how2 \in Hows, x1, x2 \in 0..MaxIndex : Compare(1, how1, x1, how2, x2)

SpecIter == InitIter /\ [][NextIter]_vars

\* ------------------------------------------------ growing the map
\* the argument pairs _reallocate_map is called with, under the callers'
\* tests: emplace_front (1, 0) and emplace_back (0, 1), and the bulk insert
\* (need_blocks, 0) and (0, need_blocks)
CalledWith(i, add_front, add_back) ==
    \/ /\ add_back = 0 /\ add_front >= 1
       /\ obj[i].start.node - obj[i].map < add_front
    \/ /\ add_front = 0 /\ add_back >= 1
       /\ obj[i].map + obj[i].map_size - 1 - obj[i].finish.node < add_back
    \/ /\ add_front = 0 /\ add_back = 1
       /\ obj[i].finish.node + 1 = obj[i].map + obj[i].map_size - 1

ReallocateMap(i, add_front, add_back, f) ==
    /\ CanCall /\ Alive(i) /\ obj[i].map # NullPtr
    /\ CalledWith(i, add_front, add_back)
    /\ Commit(_reallocate_map(World(f), i, add_front, add_back), "reallocate_map",
              i, 0, add_front, add_back, << >>)

InitMap == InitWith(MaxOps + 1) /\ cfg.trivial /\ ~cfg.dangle

NextMap ==
    \/ \E n \in 0..MaxCount : CtorIlist(1, n, 1, 0)
    \/ EmplaceBack(1, 0)
    \/ EmplaceFront(1, 0)
    \/ \E add_front, add_back \in 0..MaxNeed, f \in 0..1 :
           ReallocateMap(1, add_front, add_back, f)

SpecMap == InitMap /\ [][NextMap]_vars

\* ------------------------------------------- insert(const_iterator, T&&)
\* d.insert(d.cbegin() + k, std::move(value)): control enters the overload
\* insert(const_iterator pos, T&& value).  Whether the build keeps a frame
\* per call or turns the call in return position into a jump is the
\* build's choice.
InsertRvalue(i, k) ==
    /\ CanCall /\ Alive(i) /\ obj[i].map # NullPtr
    /\ k <= SizeT(size(Now, i))
    /\ \E t \in BOOLEAN :
           call' = [op |-> "insert_rvalue", o |-> i, n |-> k, tail |-> t,
                    depth |-> 1, turn |-> 0]
    /\ nops' = nops + 1
    /\ hist' = Append(hist, "insert_rvalue")
    /\ last' = [last EXCEPT !.op = "insert_rvalue", !.o = i, !.src = 0, !.n = k,
                            !.v = NewVal, !.s = << >>, !.thrown = FALSE,
                            !.ret = NullIt, !.pre = Snap(Now, i),
                            !.presrc = NoSnap, !.nalloc0 = stats.nalloc]
    /\ UNCHANGED << obj, maps, blk, fault, cfg, stats, vec >>

\* the body of that overload: return insert(pos, std::move(value)).  The
\* argument is an rvalue of type T, so the call binds to the same overload:
\* one more frame while the stack has room, or the same frame once more.
InsertRvalueBody ==
    /\ fault = "none" /\ call.op = "insert_rvalue"
    /\ IF call.tail
       THEN call' = [call EXCEPT !.turn = 1 - @] /\ UNCHANGED fault
       ELSE IF call.depth < MaxFrames
            THEN call' = [call EXCEPT !.depth = @ + 1] /\ UNCHANGED fault
       ELSE fault' = "stack_overflow" /\ UNCHANGED call
    /\ UNCHANGED << obj, maps, blk, cfg, nops, last, stats, hist, vec >>

NextInsert ==
    \/ \E n \in 0..MaxCount : CtorIlist(1, n, 1, 0)
    \/ \E k \in 0..MaxCount : Insert(1, k, 0)
    \/ \E k \in 0..MaxCount, n \in 0..MaxCount : InsertN(1, k, n, 0)
    \/ \E k \in 0..MaxCount : InsertRvalue(1, k)
    \/ InsertRvalueBody

\* a call that has started keeps running: the thread is not suspended
SpecInsert == Init /\ [][NextInsert]_vars /\ WF_vars(InsertRvalueBody)

\* ------------------------------------------------------ vector primitives
VWorld(f) ==
    [v |-> vec.v, heap |-> vec.heap, fault |-> fault, cfg |-> cfg,
     fuel |-> f, thrown |-> FALSE, oom |-> FALSE, ret |-> 0]

LiveBuf(W, p) == p \in BufIds /\ W.heap[p].st = "live"
ValidSlot(W, p, k) == LiveBuf(W, p) /\ 0 <= k /\ k < Len(W.heap[p].data)

\* _allocator.allocate(n): n raw slots; n = 0 still yields a buffer of its own
VAlloc(W0, n) ==
    The({
        IF ~Ok(W) THEN [w |-> W, p |-> NullPtr]
        ELSE IF W.fuel = 1 THEN [w |-> Event(W), p |-> NullPtr]
        ELSE IF \A b \in BufIds : W.heap[b].st # "unused"
             THEN [w |-> [W EXCEPT !.oom = TRUE], p |-> NullPtr]
        ELSE The({
            [w |-> [Event(W) EXCEPT !.heap[b] = [st |-> "live",
                                                  data |-> [k \in 1..n |-> Raw]]],
             p |-> b]
        : b \in {MinOf({c \in BufIds : W.heap[c].st = "unused"})} })
    : W \in {W0} })

\* _allocator.deallocate(p, n)
VDealloc(W0, p) ==
    The({
        IF ~Ok(W) \/ p = NullPtr THEN W
        ELSE IF LiveBuf(W, p) THEN [W EXCEPT !.heap[p].st = "freed"]
        ELSE [W EXCEPT !.fault = "bad_free"]
    : W \in {W0} })

\* *(p + k)
VRead(W, p, k) == IF ValidSlot(W, p, k) THEN W.heap[p].data[k + 1] ELSE Raw

\* *(p + k) = v
VWrite(W0, p, k, v0) ==
    The({
        IF ~Ok(W) THEN W
        ELSE IF ValidSlot(W, p, k) THEN [W EXCEPT !.heap[p].data[k + 1] = v]
        ELSE [W EXCEPT !.fault = "wild_write"]
    : W \in {W0}, v \in {v0} })

\* construct(p + k, v): the constructor of a non-trivial T may throw
VConstruct(W0, p, k, v) ==
    The({
        IF ~Ok(W) THEN W
        ELSE IF W.cfg.trivial THEN VWrite(W, p, k, v)
        ELSE VWrite(Event(W), p, k, v)
    : W \in {W0} })

\* destroy(p + k): nothing for a trivially destructible T; on a slot whose
\* object was already destroyed the destructor runs on a dead object
VDestroy(W0, p, k) ==
    The({
        IF ~Ok(W) \/ W.cfg.trivial THEN W
        ELSE IF ~ValidSlot(W, p, k) THEN [W EXCEPT !.fault = "wild_destroy"]
        ELSE IF W.heap[p].data[k + 1] = Raw
             THEN (IF W.cfg.dead THEN [W EXCEPT !.fault = "dead_destroy"] ELSE W)
        ELSE [W EXCEPT !.heap[p].data[k + 1] = Raw]
    : W \in {W0} })

\* a memmove that copies nothing
NoMove(W0, dst, doff, src, soff, n) == W0

\* std::memmove(dst + doff, src + soff, n * sizeof(T))
MemMove(W0, dst, doff, src, soff, n) ==
    The({
        IF ~Ok(W) \/ n = 0 THEN W
        ELSE IF ~(ValidSlot(W, src, soff) /\ ValidSlot(W, src, soff + n - 1))
             THEN [W EXCEPT !.fault = "wild_read"]
        ELSE IF ~(ValidSlot(W, dst, doff) /\ ValidSlot(W, dst, doff + n - 1))
             THEN [W EXCEPT !.fault = "wild_write"]
        ELSE [W EXCEPT !.heap[dst].data =
                 [k \in 1..Len(W.heap[dst].data) |->
                     IF doff < k /\ k <= doff + n
                     THEN W.heap[src].data[k - doff + soff]
                     ELSE W.heap[dst].data[k]]]
    : W \in {W0} })

\* mystl::destroy_n(alloc, p + k, n), and the loops that destroy [p+k, p+k+n)
RECURSIVE destroy_n(_, _, _, _)
destroy_n(W0, p, k, n) ==
    The({
        IF ~Ok(W) \/ n <= 0 THEN W
        ELSE destroy_n(VDestroy(W, p, k), p, k + 1, n - 1)
    : W \in {W0} })

\* the body of a catch (...) block or of a destructor run while unwinding:
\* it runs although an exception is in flight, which is rethrown afterwards
Caught(W0) == The({ [W EXCEPT !.thrown = FALSE] : W \in {W0} })
Rethrow(W0) == The({ IF W.fault = "none" THEN [W EXCEPT !.thrown = TRUE] ELSE W : W \in {W0} })

\* ---------------------------------------------------------- vector members
vector_size(W, i) == W.v[i].fin
capacity(W, i) == W.v[i].eos
\* vector::max_size: numeric_limits<size_type>::max() / sizeof(T), scaled to
\* the sizes a run can ask for
max_size == 2 * MaxCount + 1

SetVec(W0, i, start, fin, eos) ==
    The({
        IF ~Ok(W) THEN W
        ELSE [W EXCEPT !.v[i].start = start, !.v[i].fin = fin, !.v[i].eos = eos]
    : W \in {W0} })

\* ++this->_finish
IncFin(W0, i) ==
    The({ IF ~Ok(W) THEN W ELSE [W EXCEPT !.v[i].fin = @ + 1] : W \in {W0} })

\* vector(const allocator_type&)
vector_default(W0, i) ==
    The({ [W EXCEPT !.v[i] = [st |-> "alive", start |-> NullPtr, fin |-> 0, eos |-> 0]]
    : W \in {W0} })

\* for (; first != last; ++first, ++_finish) construct(_finish, *first)
RECURSIVE InitLoop(_, _, _, _)
InitLoop(W0, i, s, k) ==
    The({
        IF ~Ok(W) \/ k > Len(s) THEN W
        ELSE InitLoop(IncFin(VConstruct(W, W.v[i].start, W.v[i].fin, s[k]), i), i, s, k + 1)
    : W \in {W0} })

\* catch (...) of _range_initialize: destroy what was built, free, null, rethrow
InitRollback(W0, i) ==
    The({
        IF ~(W.thrown /\ W.fault = "none") THEN W
        ELSE Rethrow(SetVec(VDealloc(destroy_n(Caught(W), W.v[i].start, 0, W.v[i].fin),
                                     W.v[i].start),
                            i, NullPtr, 0, 0))
    : W \in {W0} })

\* _range_initialize(first, last, std::random_access_iterator_tag)
_range_initialize(W0, i, s) ==
    The({
        IF ~Ok(a.w) THEN a.w
        ELSE InitRollback(InitLoop(SetVec(a.w, i, a.p, 0, Len(s)), i, s, 1), i)
    : a \in {VAlloc(W0, Len(s))} })

\* vector(std::initializer_list<T>)
vector_ilist(W0, i, s) == _range_initialize(vector_default(W0, i), i, s)

\* ~vector
vector_dtor(W0, i) ==
    The({
        IF ~Ok(W) THEN W
        ELSE [SetVec(VDealloc(destroy_n(W, W.v[i].start, 0, W.v[i].fin), W.v[i].start),
                     i, NullPtr, 0, 0) EXCEPT !.v[i].st = "dead"]
    : W \in {W0} })

\* uninitialized_move_n, element-wise branch: construct(result + k, move(first[k]))
\* for k < n; on a throw the elements built so far are destroyed and the
\* exception is rethrown
RECURSIVE MoveLoop(_, _, _, _, _)
MoveLoop(W0, src, dst, k, n) ==
    The({
        IF ~Ok(W) \/ k >= n THEN W
        ELSE The({
            IF W1.thrown /\ W1.fault = "none"
            THEN Rethrow(destroy_n(Caught(W1), dst, 0, k))
            ELSE MoveLoop(W1, src, dst, k + 1, n)
        : W1 \in {VConstruct(W, dst, k, VRead(W, src, k))} })
    : W \in {W0} })

\* mystl::uninitialized_move_n(alloc, first, n, result)
uninitialized_move_n(W0, src, n, dst) ==
    The({
        IF W.cfg.trivial THEN MemMove(W, dst, 0, src, 0, n)
        ELSE MoveLoop(W, src, dst, 0, n)
    : W \in {W0} })

\* a catch block of reserve that rethrows with the new buffer still allocated
LeakNew(W0, p) == W0

\* catch (...) of reserve: deallocate(new_start, new_cap); throw
FreeNew(W0, p) ==
    The({
        IF ~(W.thrown /\ W.fault = "none") THEN W
        ELSE Rethrow(VDealloc(Caught(W), p))
    : W \in {W0} })

\* the end of reserve: the old elements destroyed, the old buffer freed, the
\* three pointers on the new buffer
Adopt(W0, i, d, new_start, new_cap) ==
    The({
        SetVec(VDealloc(destroy_n(W, d.start, 0, d.fin), d.start),
               i, new_start, d.fin, new_cap)
    : W \in {W0} })

\* vector::reserve
reserve(W0, i, new_cap) ==
    The({
        IF ~Ok(W) \/ new_cap <= capacity(W, i) THEN W
        ELSE IF new_cap > max_size THEN [W EXCEPT !.thrown = TRUE]
        ELSE The({
            IF ~Ok(a.w) THEN a.w
            ELSE Adopt(FreeNew(IF a.w.cfg.trivial
                               THEN MemMove(a.w, a.p, 0, d.start, 0, d.fin)
                               ELSE uninitialized_move_n(a.w, d.start, d.fin, a.p),
                               a.p),
                       i, d, a.p, new_cap)
        : a \in {VAlloc(W, new_cap)}, d \in {W.v[i]} })
    : W \in {W0} })

\* for (p = _start; p != _finish; ++p, ++new_finish) construct(new_finish, std::move(*p))
RECURSIVE GrowLoop(_, _, _, _, _)
GrowLoop(W0, src, dst, k, n) ==
    The({
        IF ~Ok(W) \/ k >= n THEN [w |-> W, fin |-> k]
        ELSE The({
            IF ~Ok(W1) THEN [w |-> W1, fin |-> k]
            ELSE GrowLoop(W1, src, dst, k + 1, n)
        : W1 \in {VConstruct(W, dst, k, VRead(W, src, k))} })
    : W \in {W0} })

\* catch (...) of _realloc_insert: destroy [new_start, new_finish), deallocate, throw
DropNew(W0, p, fin) ==
    The({
        IF ~(W.thrown /\ W.fault = "none") THEN W
        ELSE Rethrow(VDealloc(destroy_n(Caught(W), p, 0, fin), p))
    : W \in {W0} })

\* vector::_realloc_insert(args...)
_realloc_insert(W0, i, v) ==
    The({
        IF ~Ok(W) THEN W
        ELSE The({
            IF ~Ok(a.w) THEN a.w
            ELSE The({
                IncFin(Adopt(DropNew(VConstruct(g.w, a.p, g.fin, v), a.p, g.fin),
                             i, d, a.p, Len(a.w.heap[a.p].data)), i)
            : g \in {GrowLoop(a.w, d.start, a.p, 0, d.fin)} })
        : a \in {VAlloc(W, IF W.v[i].eos = 0 THEN 1 ELSE W.v[i].eos * 2)},
          d \in {W.v[i]} })
    : W \in {W0} })

\* a swap that exchanges nothing
NoSwap(W0, i, j) == W0

\* vector::swap
swap(W0, i, j) ==
    The({
        IF ~Ok(W) THEN W
        ELSE [W EXCEPT !.v[i].start = W.v[j].start, !.v[i].fin = W.v[j].fin,
                       !.v[i].eos = W.v[j].eos,
                       !.v[j].start = W.v[i].start, !.v[j].fin = W.v[i].fin,
                       !.v[j].eos = W.v[i].eos]
    : W \in {W0} })

\* _move_range(alloc, p + from, p + from + n, p + to), backward branch (to > from)
RECURSIVE MoveBackward(_, _, _, _, _)
MoveBackward(W0, p, from, to, k) ==
    The({
        IF ~Ok(W) \/ k = 0 THEN W
        ELSE IF W.cfg.trivial
             THEN MoveBackward(VWrite(W, p, to + k - 1, VRead(W, p, from + k - 1)),
                               p, from, to, k - 1)
        ELSE MoveBackward(VDestroy(VConstruct(W, p, to + k - 1, VRead(W, p, from + k - 1)),
                                   p, from + k - 1),
                          p, from, to, k - 1)
    : W \in {W0} })

\* _move_range(alloc, p + from, p + from + n, p + to), forward branch (to < from)
RECURSIVE MoveForward(_, _, _, _, _, _)
MoveForward(W0, p, from, to, k, n) ==
    The({
        IF ~Ok(W) \/ k >= n THEN W
        ELSE IF W.cfg.trivial
             THEN MoveForward(VWrite(W, p, to + k, VRead(W, p, from + k)),
                              p, from, to, k + 1, n)
        ELSE MoveForward(VDestroy(VConstruct(W, p, to + k, VRead(W, p, from + k)),
                                  p, from + k),
                         p, from, to, k + 1, n)
    : W \in {W0} })

\* vector::_move_range
_move_range(W0, p, from, n, to) ==
    The({
        IF ~Ok(W) \/ n = 0 \/ from = to THEN W
        ELSE IF to < from THEN MoveForward(W, p, from, to, 0, n)
        ELSE MoveBackward(W, p, from, to, n)
    : W \in {W0} })

\* emplace, room left, pos in the middle: the last element copied behind the
\* end, the tail shifted one slot right, the slot at pos rebuilt
MiddleEmplace(W0, i, idx, v) ==
    The({
        Ret(IncFin(VConstruct(VDestroy(
                IF W.cfg.trivial
                THEN MemMove(W1, p, idx + 1, p, idx, (fin - 1) - idx)
                ELSE _move_range(W1, p, idx, (fin - 1) - idx, idx + 1),
                p, idx), p, idx, v), i), idx)
    : W1 \in {VConstruct(W0, W0.v[i].start, W0.v[i].fin,
                         VRead(W0, W0.v[i].start, W0.v[i].fin - 1))},
      p \in {W0.v[i].start}, fin \in {W0.v[i].fin}, W \in {W0} })

\* tmp leaves scope: ~vector on tmp, also while an exception unwinds
LeaveTmp(W0) ==
    The({
        IF W.fault # "none" THEN W
        ELSE IF W.thrown THEN Rethrow(vector_dtor(Caught(W), TmpVec))
        ELSE [vector_dtor(W, TmpVec) EXCEPT !.ret = W.ret]
    : W \in {W0} })

RECURSIVE vector_emplace_back(_, _, _)
RECURSIVE vector_emplace(_, _, _, _)

\* for (it = _start + from; it != _start + to; ++it) tmp.emplace_back(std::move(*it))
RECURSIVE MoveIntoTmp(_, _, _, _)
MoveIntoTmp(W0, i, from, to) ==
    The({
        IF ~Ok(W) \/ from >= to THEN W
        ELSE MoveIntoTmp(vector_emplace_back(W, TmpVec, VRead(W, W.v[i].start, from)),
                         i, from + 1, to)
    : W \in {W0} })

\* emplace, no room: tmp built with twice the size, swapped with this
SlowEmplace(W0, i, idx, v) ==
    The({
        LeaveTmp(Ret(swap(MoveIntoTmp(
                vector_emplace_back(
                    MoveIntoTmp(reserve(vector_default(W, TmpVec), TmpVec,
                                        IF vector_size(W, i) # 0
                                        THEN vector_size(W, i) * 2 ELSE 1),
                                i, 0, idx),
                    TmpVec, v),
                i, idx, vector_size(W, i)), TmpVec, i), idx))
    : W \in {W0} })

\* vector::emplace(cpos, args...), idx = cpos - _start
vector_emplace(W0, i, idx, v) ==
    The({
        IF ~Ok(W) THEN W
        ELSE IF W.v[i].fin # W.v[i].eos
             THEN IF idx = W.v[i].fin
                  THEN Ret(IncFin(VConstruct(W, W.v[i].start, W.v[i].fin, v), i), idx)
                  ELSE MiddleEmplace(W, i, idx, v)
        ELSE SlowEmplace(W, i, idx, v)
    : W \in {W0} })

\* vector::emplace_back
vector_emplace_back(W0, i, v) ==
    The({
        IF ~Ok(W) THEN W
        ELSE IF W.v[i].fin # W.v[i].eos
             THEN IncFin(VConstruct(W, W.v[i].start, W.v[i].fin, v), i)
        ELSE vector_emplace(W, i, W.v[i].fin, v)
    : W \in {W0} })

\* erase, non-trivial T: for (read = last, write = first; read != _finish;
\* ++read, ++write) *write = std::move(*read)
\* for (; i < size() && it != ilist.end(); ++i, ++it) _start[i] = *it
RECURSIVE AssignPrefix(_, _, _, _)
AssignPrefix(W0, i, s, k) ==
    The({
        IF ~Ok(W) \/ k >= vector_size(W, i) \/ k >= Len(s) THEN W
        ELSE AssignPrefix(VWrite(W, W.v[i].start, k, s[k + 1]), i, s, k + 1)
    : W \in {W0} })

\* for (; it != ilist.end(); ++i, ++it) construct(_finish, *it): _finish is
\* not advanced
RECURSIVE ConstructAtFinish(_, _, _, _)
ConstructAtFinish(W0, i, s, k) ==
    The({
        IF ~Ok(W) \/ k >= Len(s) THEN W
        ELSE ConstructAtFinish(VConstruct(W, W.v[i].start, W.v[i].fin, s[k + 1]),
                               i, s, k + 1)
    : W \in {W0} })

\* for (; i < size(); ++i) destroy(_start + i), i left at n by the loops before
DestroyExcess(W0, i, n) ==
    The({
        IF n < vector_size(W, i)
        THEN destroy_n(W, W.v[i].start, n, vector_size(W, i) - n)
        ELSE W
    : W \in {W0} })

\* _finish = _start + n
SetFin(W0, i, n) ==
    The({ IF ~Ok(W) THEN W ELSE [W EXCEPT !.v[i].fin = n] : W \in {W0} })

\* vector tmp(...); this->swap(tmp); tmp destroyed at the end of the block
SwapWithTmp(W0, i) ==
    The({ IF ~Ok(W) THEN W ELSE LeaveTmp(swap(W, i, TmpVec)) : W \in {W0} })

\* vector::operator=(std::initializer_list<T>)
vector_ilist_assign(W0, i, s) ==
    The({
        IF ~Ok(W) THEN W
        ELSE IF Len(s) > capacity(W, i) THEN SwapWithTmp(vector_ilist(W, TmpVec, s), i)
        ELSE SetFin(DestroyExcess(
                 ConstructAtFinish(AssignPrefix(W, i, s, 0), i, s,
                                   IF vector_size(W, i) < Len(s)
                                   THEN vector_size(W, i) ELSE Len(s)),
                 i, Len(s)), i, Len(s))
    : W \in {W0} })

\* std::uninitialized_copy_n(first + off, n, result + off): construct the
\* copies in order; on a throw destroy the ones built and rethrow
RECURSIVE UCopyLoop(_, _, _, _, _, _)
UCopyLoop(W0, src, dst, off, k, n) ==
    The({
        IF ~Ok(W) \/ k >= n THEN W
        ELSE The({
            IF W1.thrown /\ W1.fault = "none"
            THEN Rethrow(destroy_n(Caught(W1), dst, off, k))
            ELSE UCopyLoop(W1, src, dst, off, k + 1, n)
        : W1 \in {VConstruct(W, dst, off + k, VRead(W, src, off + k))} })
    : W \in {W0} })

\* a copy assignment that stops after the assigned prefix
NoRest(W0, i, j, m) == W0

\* vector(const vector& other)
vector_copy(W0, i, j) ==
    The({
        IF vector_size(W, j) = 0 THEN W
        ELSE The({
            IF ~Ok(a.w) THEN a.w
            ELSE SetFin(UCopyLoop(SetVec(a.w, i, a.p, 0, vector_size(W, j)),
                                  W.v[j].start, a.p, 0, 0, vector_size(W, j)),
                        i, vector_size(W, j))
        : a \in {VAlloc(W, vector_size(W, j))} })
    : W \in {vector_default(W0, i)} })

\* for (; i < size() && i < otherSize; ++i) _start[i] = other._start[i]
RECURSIVE AssignFrom(_, _, _, _)
AssignFrom(W0, i, j, k) ==
    The({
        IF ~Ok(W) \/ k >= vector_size(W, i) \/ k >= vector_size(W, j) THEN W
        ELSE AssignFrom(VWrite(W, W.v[i].start, k, VRead(W, W.v[j].start, k)), i, j, k + 1)
    : W \in {W0} })

\* the rest of the source copied behind the assigned prefix, or the excess of
\* the destination destroyed
CopyRest(W0, i, j, m) ==
    The({
        IF m < vector_size(W, j)
        THEN UCopyLoop(W, W.v[j].start, W.v[i].start, m, 0, vector_size(W, j) - m)
        ELSE DestroyExcess(W, i, m)
    : W \in {W0} })

\* vector::operator=(const vector&); the allocator does not propagate
vector_copy_assign(W0, i, j) ==
    The({
        IF ~Ok(W) \/ i = j THEN W
        ELSE IF vector_size(W, j) > capacity(W, i)
             THEN SwapWithTmp(vector_copy(W, TmpVec, j), i)
        ELSE SetFin(CopyRest(AssignFrom(W, i, j, 0), i, j,
                             IF vector_size(W, i) < vector_size(W, j)
                             THEN vector_size(W, i) ELSE vector_size(W, j)),
                    i, vector_size(W, j))
    : W \in {W0} })

\* an erase that leaves the tail where it is
NoShift(W0, p, read, write, fin) == W0

RECURSIVE EraseShift(_, _, _, _, _)
EraseShift(W0, p, read, write, fin) ==
    The({
        IF ~Ok(W) \/ read = fin THEN W
        ELSE EraseShift(VWrite(W, p, write, VRead(W, p, read)), p, read + 1, write + 1, fin)
    : W \in {W0} })

\* vector::erase(first, last), first = _start + a, last = _start + b
erase(W0, i, a, b) ==
    The({
        IF ~Ok(W) THEN W
        ELSE IF a = b THEN Ret(W, a)
        ELSE The({
            Ret(SetVec(IF W.cfg.trivial
                       THEN MemMove(W, d.start, a, d.start, b, d.fin - b)
                       ELSE destroy_n(EraseShift(W, d.start, b, a, d.fin),
                                      d.start, d.fin - (b - a), b - a),
                       i, d.start, d.fin - (b - a), d.eos), a)
        : d \in {W.v[i]} })
    : W \in {W0} })

\* vector::at
vector_at(W0, i, pos) ==
    The({
        IF ~Ok(W) THEN W
        ELSE IF pos >= vector_size(W, i) THEN [W EXCEPT !.thrown = TRUE]
        ELSE Ret(W, VRead(W, W.v[i].start, pos))
    : W \in {W0} })

\* ------------------------------------------------------ the vector machine
\* size, capacity, buffer and element sequence of vector i
VSnap(W, i) ==
    [sz |-> vector_size(W, i), cap |-> capacity(W, i), start |-> W.v[i].start,
     elems |-> [k \in 1..W.v[i].fin |-> VRead(W, W.v[i].start, k - 1)]]

VNow == VWorld(0)

VCommit(W0, op, i, n, v, s) ==
    \E W \in {W0} :
        /\ ~W.oom
        /\ vec' = [v |-> [W.v EXCEPT ![TmpVec] = NullVec], heap |-> W.heap]
        /\ fault' = W.fault
        /\ nops' = nops + 1
        /\ last' = [op |-> op, o |-> i, src |-> 0, n |-> n, v |-> v, s |-> s,
                    thrown |-> W.thrown, ret |-> W.ret, pre |-> VSnap(VNow, i),
                    presrc |-> NoSnap, nalloc0 |-> 0]
        /\ hist' = Append(hist, op)
        /\ UNCHANGED << obj, maps, blk, stats, cfg, call >>

\* a constructor that throws leaves no object behind
VBuilt(W0, i) ==
    The({ IF W.thrown THEN [W EXCEPT !.v[i].st = "failed"] ELSE W : W \in {W0} })

VAlive(i) == vec.v[i].st = "alive"
VNewVal == 10 + nops

VCtorDefault(f) ==
    /\ CanCall /\ vec.v[1].st = "unborn"
    /\ VCommit(vector_default(VWorld(f), 1), "vector_default", 1, 0, 0, << >>)

VCtorIlist(n, f) ==
    /\ CanCall /\ vec.v[1].st = "unborn"
    /\ VCommit(VBuilt(vector_ilist(VWorld(f), 1, InputSeq(n)), 1),
               "vector_ilist", 1, n, 0, InputSeq(n))

VEmplaceBack(f) ==
    /\ CanCall /\ VAlive(1)
    /\ VCommit(vector_emplace_back(VWorld(f), 1, VNewVal), "emplace_back", 1, 0, VNewVal, << >>)

VEmplace(idx, f) ==
    /\ CanCall /\ VAlive(1) /\ idx <= vec.v[1].fin
    /\ VCommit(vector_emplace(VWorld(f), 1, idx, VNewVal), "emplace", 1, idx, VNewVal, << >>)

VIlistAssign(n, f) ==
    /\ CanCall /\ VAlive(1)
    /\ VCommit(vector_ilist_assign(VWorld(f), 1, InputSeq(n)), "ilist_assign", 1, n, 0,
               InputSeq(n))

VReserve(n, f) ==
    /\ CanCall /\ VAlive(1)
    /\ VCommit(reserve(VWorld(f), 1, n), "reserve", 1, n, 0, << >>)

VErase(a, b) ==
    /\ CanCall /\ VAlive(1)
    /\ a <= b /\ b <= vec.v[1].fin
    /\ VCommit(erase(VWorld(0), 1, a, b), "erase", 1, a, b, << >>)

VAt(pos) ==
    /\ CanCall /\ VAlive(1)
    /\ VCommit(vector_at(VWorld(0), 1, pos), "at", 1, pos, 0, << >>)

VDtor ==
    /\ fault = "none" /\ VAlive(1)
    /\ VCommit(vector_dtor(VWorld(0), 1), "dtor", 1, 0, 0, << >>)

\* a call that reads a second vector: as VCommit, with the source recorded
VCommitFrom(W0, op, i, j) ==
    \E W \in {W0} :
        /\ ~W.oom
        /\ vec' = [v |-> [W.v EXCEPT ![TmpVec] = NullVec], heap |-> W.heap]
        /\ fault' = W.fault
        /\ nops' = nops + 1
        /\ last' = [op |-> op, o |-> i, src |-> j, n |-> 0, v |-> 0, s |-> << >>,
                    thrown |-> W.thrown, ret |-> W.ret, pre |-> VSnap(VNow, i),
                    presrc |-> VSnap(VNow, j), nalloc0 |-> 0]
        /\ hist' = Append(hist, op)
        /\ UNCHANGED << obj, maps, blk, stats, cfg, call >>

\* the elements of the second vector, distinct from those of the first
OtherSeq(n) == [k \in 1..n |-> 20 + k]

VCtorOther(n, f) ==
    /\ CanCall /\ vec.v[2].st = "unborn"
    /\ VCommit(VBuilt(vector_ilist(VWorld(f), 2, OtherSeq(n)), 2),
               "vector_ilist", 2, n, 0, OtherSeq(n))

VCopyAssign(i, j, f) ==
    /\ CanCall /\ VAlive(i) /\ VAlive(j)
    /\ VCommitFrom(vector_copy_assign(VWorld(f), i, j), "copy_assign", i, j)

\* the deque's platform choices play no part in a vector run
InitVec == InitWith(MaxVecOps) /\ cfg.junk = NullPtr /\ ~cfg.dangle

NextVec ==
    \/ VCtorDefault(0)
    \/ \E n \in 0..MaxCount : VCtorIlist(n, 0)
    \/ VEmplaceBack(0)
    \/ \E n \in 0..max_size + 1 : VReserve(n, 0)
    \/ \E a, b \in 0..MaxCount + 1 : VErase(a, b)
    \/ \E pos \in 0..MaxCount + 2 : VAt(pos)
    \/ VDtor

SpecVec == InitVec /\ [][NextVec]_vars

\* ------------------------------------- a vector that is inserted into and
\* assigned to
InitAssign ==
    /\ InitAny(MaxVecOps)
    /\ cfg.junk = NullPtr /\ ~cfg.dangle /\ (cfg.trivial => ~cfg.dead)

NextAssign ==
    \/ VCtorDefault(0)
    \/ \E n \in 0..MaxCount : VCtorIlist(n, 0)
    \/ VEmplaceBack(0)
    \/ \E idx \in 0..MaxCount + 1 : VEmplace(idx, 0)
    \/ \E n \in 0..MaxCount : VIlistAssign(n, 0)
    \/ \E n \in 0..2 * MaxCount : VReserve(n, 0)
    \/ VDtor

SpecAssign == InitAssign /\ [][NextAssign]_vars

\* ----------------------------------------- a vector whose growth can fail
\* reserve, with the step that fails recorded
VReserveFailing(n, f) ==
    /\ CanCall /\ VAlive(1)
    /\ VCommit(reserve(VWorld(f), 1, n), "reserve", 1, n, 0, << f >>)

\* _realloc_insert, called as the range constructor calls it: on a vector
\* with a buffer and no room left
VReallocInsert(f) ==
    /\ CanCall /\ VAlive(1)
    /\ vec.v[1].start # NullPtr /\ vec.v[1].fin = vec.v[1].eos
    /\ VCommit(_realloc_insert(VWorld(f), 1, VNewVal), "realloc_insert", 1, 0, VNewVal, << f >>)

InitGrow == InitWith(MaxOps + 1) /\ cfg.junk = NullPtr /\ ~cfg.dangle

NextGrow ==
    \/ \E n \in 0..MaxCount : VCtorIlist(n, 0)
    \/ VEmplaceBack(0)
    \/ \E n \in 0..max_size + 1, f \in 0..MaxFail : VReserveFailing(n, f)
    \/ \E f \in 0..MaxFail : VReallocInsert(f)

SpecGrow == InitGrow /\ [][NextGrow]_vars

\* ------------------------------------------------ two vectors, one assigned
\* from the other
NextCopy ==
    \/ \E n \in 0..MaxCount : VCtorIlist(n, 0)
    \/ \E n \in 0..MaxCount : VCtorOther(n, 0)
    \/ \E n \in 0..2 * MaxCount : VReserve(n, 0)
    \/ \E i, j \in 1..2 : VCopyAssign(i, j, 0)

SpecCopy == InitVec /\ [][NextCopy]_vars

\* ------------------------------------------------------------- properties
\* C1: after any constructions and mutating operations, size() equals the
\* number of ++ steps from begin() to end() (the walk arrives at end() having
\* read only elements), and begin() advanced by size() equals end().
C1_SizeIsWalkLength ==
    \A i \in Objs :
        (fault = "none" /\ Alive(i) /\ obj[i].map # NullPtr)
        => /\ Walk(Now, i).ok
           /\ Len(Walk(Now, i).vals) = size(Now, i)
           /\ operator_eq(operator_pluseq(Now, obj[i].start, size(Now, i)), obj[i].finish)

\* C2: a deque built by the range constructor or the initializer-list
\* constructor from a sequence yields, walked from begin() to end(), exactly
\* that sequence, whatever its length.
C2_CtorRoundTrip ==
    (fault = "none" /\ last.op \in {"ctor_range", "ctor_ilist"})
    => Walk(Now, last.o) = [ok |-> TRUE, vals |-> last.s]

\* C3: N emplace_back calls then N emplace_front calls on a default deque give
\* size() = 2N, the front values first in reverse order of insertion, then the
\* back values in order of insertion.
C3_BackThenFront ==
    \A N \in 1..MaxPush :
        (fault = "none"
         /\ hist = << "ctor_default" >> \o [k \in 1..N |-> "emplace_back"]
                                        \o [k \in 1..N |-> "emplace_front"])
        => /\ size(Now, 1) = 2 * N
           /\ Walk(Now, 1) =
                [ok |-> TRUE,
                 vals |-> [k \in 1..(2 * N) |->
                             MaxCount + (IF k <= N THEN 2 * N + 2 - k ELSE k - N + 1)]]

\* C4: a deque with a map has map <= start.node <= finish.node < map + map_size
\* and every slot from start.node through finish.node holds the address of a
\* block that is currently allocated.
C4_OccupiedSlotsLive ==
    \A i \in Objs :
        (fault = "none" /\ Alive(i) /\ obj[i].map # NullPtr)
        => /\ obj[i].map <= obj[i].start.node
           /\ obj[i].start.node <= obj[i].finish.node
           /\ obj[i].finish.node < obj[i].map + obj[i].map_size
           /\ \A n \in obj[i].start.node..obj[i].finish.node :
                /\ ValidNode(Now, n)
                /\ LiveBlock(Now, BlkOf(ReadSlot(Now, n)))
                /\ OffOf(ReadSlot(Now, n)) = 0

\* C5: both sentinel cursors of a deque with a map satisfy first <= cur <= last
\* and last = first + block size, and node is a slot of the map that holds
\* first, the address of the block [first, last).
C5_CursorsOnBlocks ==
    \A i \in Objs :
        (fault = "none" /\ Alive(i) /\ obj[i].map # NullPtr)
        => \A c \in {obj[i].start, obj[i].finish} :
                /\ c.first <= c.cur /\ c.cur <= c.last
                /\ c.last = c.first + buffer_size
                /\ ValidNode(Now, c.node)
                /\ ReadSlot(Now, c.node) = c.first
                /\ LiveBlock(Now, BlkOf(c.first)) /\ OffOf(c.first) = 0

\* C6: from a default deque, through any run of emplace_front and emplace_back
\* calls, every slow-path write of a new block pointer targets a slot inside
\* [map, map + map_size) that is outside the occupied range and names no live
\* block.
C6_SlowWriteHitsSpareSlot ==
    ~stats.slowbad /\ fault # "oob_map_write"

\* pushes on both sides have taken the slow path and the map has been
\* reallocated at least twice
C6_Witness ==
    /\ stats.slow /\ ~stats.slowbad /\ fault = "none"
    /\ obj[1].map_size > 6
    /\ \E k \in 1..Len(hist) : hist[k] = "emplace_front"
    /\ \E k \in 1..Len(hist) : hist[k] = "emplace_back"
    /\ obj[1].finish.node - obj[1].start.node >= 3

\* C7: when an allocation or an element construction fails inside
\* emplace_front, emplace_back, insert, assign, copy assignment or
\* initializer-list assignment, the deque has afterwards the size and the
\* element sequence it had before the call, and its map is still allocated.
C7_FailedCallChangesNothing ==
    (fault = "none" /\ last.thrown /\ last.pre.walk.ok
     /\ last.op \in {"emplace_front", "emplace_back", "insert", "assign_count",
                     "assign_range", "assign_input_range", "copy_assign", "ilist_assign"})
    => /\ size(Now, last.o) = last.pre.sz
       /\ Walk(Now, last.o) = last.pre.walk
       /\ obj[last.o].map # NullPtr
       /\ LiveMap(Now, MapOf(obj[last.o].map))

\* C8: once the destructor has run on the only remaining deque, after a
\* sequence of operations none of which failed, no block and no map array is
\* still allocated, each was deallocated exactly once, and deallocate never
\* received an address that is not a live allocation (a null pointer, which
\* deallocate ignores, is not counted).
C8_DtorFreesEachBlockOnce ==
    (last.op = "dtor" /\ \A i \in Objs : i # last.o => ~Alive(i))
    => /\ fault = "none"
       /\ stats.badfree = 0
       /\ \A b \in BlkIds : blk[b].st # "live" /\ (blk[b].st = "freed" => blk[b].frees = 1)
       /\ \A m \in MapIds : maps[m].st # "live" /\ (maps[m].st = "freed" => maps[m].frees = 1)

\* C9: the move constructor (the new deque takes the source's allocator, so
\* the two are interchangeable) allocates nothing, hands the source's map and
\* cursors to the new deque unchanged, leaves the source with a null map,
\* size() = 0 and begin() = end(); and once both objects have been destroyed
\* after such a move, no block or map is still allocated, each was freed
\* exactly once and deallocate never received anything but a live allocation.
C9_MoveCtorStealsStorage ==
    /\ last.op = "ctor_move"
       => /\ fault = "none"
          /\ stats.nalloc = last.nalloc0
          /\ obj[last.o].map = last.presrc.d.map
          /\ obj[last.o].map_size = last.presrc.d.map_size
          /\ obj[last.o].start = last.presrc.d.start
          /\ obj[last.o].finish = last.presrc.d.finish
          /\ obj[last.src].map = NullPtr
          /\ size(Now, last.src) = 0
          /\ operator_eq(obj[last.src].start, obj[last.src].finish)
    /\ (last.op = "dtor" /\ (\E k \in 1..Len(hist) : hist[k] = "ctor_move")
        /\ \A i \in Objs : i # last.o => obj[i].st = "dead")
       => /\ fault = "none"
          /\ stats.badfree = 0
          /\ \A b \in BlkIds : blk[b].st # "live" /\ (blk[b].st = "freed" => blk[b].frees = 1)
          /\ \A m \in MapIds : maps[m].st # "live" /\ (maps[m].st = "freed" => maps[m].frees = 1)

\* C10: a move construction with an allocator unequal to the source's, or a
\* move assignment between deques with unequal allocators, gives the
\* destination the sequence the source held, at a new first-element address,
\* frees the source's old map and blocks, and leaves the source with
\* size() = 0 and begin() = end().
C10_UnequalAllocDeepMove ==
    (last.op \in {"ctor_move_alloc", "move_assign"} /\ ~last.thrown
     /\ last.presrc.d.alloc # obj[last.o].alloc)
    => /\ fault = "none"
       /\ Walk(Now, last.o).ok
       /\ Walk(Now, last.o).vals = last.presrc.walk.vals
       /\ size(Now, last.o) = last.presrc.sz
       /\ obj[last.o].start.first # last.presrc.d.start.first
       /\ ~LiveMap(Now, MapOf(last.presrc.d.map))
       /\ \A b \in BlkIds : LiveBlock(Now, b) =>
              \E n \in obj[last.o].start.node .. obj[last.o].finish.node :
                  ReadSlot(Now, n) = BlkAddr(b)
       /\ size(Now, last.src) = 0
       /\ operator_eq(obj[last.src].start, obj[last.src].finish)

\* the allocated blocks named by the occupied map slots of deque i
OwnedBlocks(i) ==
    {b \in BlkIds : LiveBlock(Now, b) /\ obj[i].map # NullPtr
                    /\ \E n \in obj[i].start.node..obj[i].finish.node :
                           ReadSlot(Now, n) = BlkAddr(b)}

\* C11: after a copy construction or a copy assignment from another deque the
\* destination walks to the sequence the source held, the source's members and
\* sequence are what they were, the two maps differ and no block is named by
\* both; and whenever two deques are alive no block belongs to both, so a later
\* change to one cannot reach the other.
C11_CopyIsIndependent ==
    /\ (last.op \in {"ctor_copy", "copy_assign"} /\ last.src # last.o /\ ~last.thrown)
       => /\ fault = "none"
          /\ Walk(Now, last.o).ok
          /\ Walk(Now, last.o).vals = last.presrc.walk.vals
          /\ size(Now, last.o) = last.presrc.sz
          /\ obj[last.src] = last.presrc.d
          /\ Walk(Now, last.src) = last.presrc.walk
          /\ obj[last.o].map # obj[last.src].map
    /\ (fault = "none" /\ Alive(1) /\ Alive(2)) => OwnedBlocks(1) \cap OwnedBlocks(2) = {}

\* C12 (deque): at(pos) throws exactly when pos >= size(); otherwise it
\* returns the element at logical index pos; either way the deque's members,
\* size and sequence are what they were before the call.
C12_AtChecksBounds ==
    (last.op = "at" /\ last.pre.walk.ok)
    => /\ fault = "none"
       /\ last.thrown <=> last.n >= last.pre.sz
       /\ ~last.thrown => last.ret = last.pre.walk.vals[last.n + 1]
       /\ Snap(Now, last.o) = last.pre

\* C12 (vector): at(pos) throws exactly when pos >= size(), otherwise returns
\* the element at index pos; size, capacity, buffer and elements are unchanged.
VectorAtChecksBounds ==
    (last.op = "at" /\ last.o = 1 /\ VAlive(1))
    => /\ fault = "none"
       /\ last.thrown <=> last.n >= last.pre.sz
       /\ ~last.thrown => last.ret = last.pre.elems[last.n + 1]
       /\ VSnap(VNow, 1) = last.pre

\* C13: erase(first, last) with 0 <= a <= b <= size() (a, b the indices of
\* first and last) leaves the elements before a, then the elements from b on,
\* in their order; size() drops by b - a; capacity() and the buffer are the
\* same; the iterator returned designates index a.
C13_EraseRemovesRange ==
    last.op = "erase"
    => /\ fault = "none" /\ ~last.thrown
       /\ VSnap(VNow, 1).elems =
            SubSeq(last.pre.elems, 1, last.n)
            \o SubSeq(last.pre.elems, last.v + 1, last.pre.sz)
       /\ VSnap(VNow, 1).sz = last.pre.sz - (last.v - last.n)
       /\ VSnap(VNow, 1).cap = last.pre.cap
       /\ VSnap(VNow, 1).start = last.pre.start
       /\ last.ret = last.n

\* a middle range of a non-trivial element type was erased, a tail remained
C13_Witness ==
    /\ last.op = "erase" /\ fault = "none" /\ ~cfg.trivial
    /\ 0 < last.n /\ last.n < last.v /\ last.v < last.pre.sz
    /\ VSnap(VNow, 1).sz = last.pre.sz - (last.v - last.n)

\* C20: emplace_back on a full vector (size() = capacity()) makes the capacity
\* max(1, 2 * old capacity); with room left the capacity and the buffer stay;
\* in both cases the old elements keep value and order, the new element is
\* last and size() grows by 1.
C20_AppendDoublesCapacity ==
    (last.op = "emplace_back" /\ last.o = 1 /\ VAlive(1) /\ ~last.thrown)
    => /\ fault = "none"
       /\ VSnap(VNow, 1).elems = Append(last.pre.elems, last.v)
       /\ VSnap(VNow, 1).sz = last.pre.sz + 1
       /\ last.pre.sz = last.pre.cap
            => VSnap(VNow, 1).cap = Max(1, 2 * last.pre.cap)
       /\ last.pre.sz < last.pre.cap
            => /\ VSnap(VNow, 1).cap = last.pre.cap
               /\ VSnap(VNow, 1).start = last.pre.start

\* an append found a full buffer of at least two elements and moved them
C20_Witness ==
    /\ last.op = "emplace_back" /\ last.o = 1 /\ VAlive(1) /\ fault = "none"
    /\ last.pre.sz = last.pre.cap /\ last.pre.cap >= 2
    /\ VSnap(VNow, 1).cap = 2 * last.pre.cap
    /\ VSnap(VNow, 1).start # last.pre.start

C15_EmplaceBackAppends ==
    (last.op = "emplace_back" /\ ~last.thrown /\ last.pre.walk.ok)
    => /\ fault = "none"
       /\ size(Now, last.o) = last.pre.sz + 1
       /\ Walk(Now, last.o) = [ok |-> TRUE, vals |-> Append(last.pre.walk.vals, last.v)]
       /\ back(Now, last.o).fault = "none"
       /\ back(Now, last.o).ret = last.v

\* C16: after assign(count, value) or assign(first, last) on a deque of any
\* earlier size, size() is the number of assigned elements and the walk from
\* begin() to end() yields exactly the assigned sequence.
C16_AssignReplaces ==
    /\ (last.op = "assign_count" /\ ~last.thrown /\ last.pre.walk.ok)
       => /\ fault = "none"
          /\ size(Now, last.o) = last.n
          /\ Walk(Now, last.o) = [ok |-> TRUE, vals |-> [k \in 1..last.n |-> last.v]]
    /\ (last.op \in {"assign_range", "assign_input_range"} /\ ~last.thrown
        /\ last.pre.walk.ok)
       => /\ fault = "none"
          /\ size(Now, last.o) = Len(last.s)
          /\ Walk(Now, last.o) = [ok |-> TRUE, vals |-> last.s]

\* C17: a deque that still has its map (every constructor gives it one, only
\* a move takes it away) owns an allocated block at start.node in every state,
\* also when empty; and clear() ends with size() = 0 and begin() = end(), the
\* block at start.node still allocated, every other block the deque owned
\* deallocated exactly once, and the map
\* and map_size what they were.
C17_ClearKeepsOneBlock ==
    /\ \A i \in Objs :
          (fault = "none" /\ Alive(i) /\ obj[i].map # NullPtr)
          => /\ ValidNode(Now, obj[i].start.node)
             /\ LiveBlock(Now, BlkOf(ReadSlot(Now, obj[i].start.node)))
    /\ (last.op = "clear" /\ last.pre.d.map # NullPtr /\ last.pre.walk.ok)
       => /\ fault = "none"
          /\ size(Now, last.o) = 0
          /\ operator_eq(obj[last.o].start, obj[last.o].finish)
          /\ obj[last.o].start = last.pre.d.start
          /\ LiveBlock(Now, BlkOf(ReadSlot(Now, obj[last.o].start.node)))
          /\ \A n \in (last.pre.d.start.node + 1)..last.pre.d.finish.node :
                BlkOf(ReadSlot(Now, n)) \in BlkIds
                => /\ blk[BlkOf(ReadSlot(Now, n))].st = "freed"
                   /\ blk[BlkOf(ReadSlot(Now, n))].frees = 1
          /\ stats.badfree = 0
          /\ obj[last.o].map = last.pre.d.map
          /\ obj[last.o].map_size = last.pre.d.map_size
          /\ LiveMap(Now, MapOf(obj[last.o].map))

\* C18: insert(pos, value) at an index with 0 < index < size() yields the old
\* elements before index, then value, then the old elements from index on;
\* size() grows by 1 and the iterator returned designates index, whichever
\* half is shifted.
C18_InsertOneInMiddle ==
    (last.op = "insert" /\ ~last.thrown /\ last.pre.walk.ok
     /\ 0 < last.n /\ last.n < last.pre.sz)
    => /\ fault = "none"
       /\ size(Now, last.o) = last.pre.sz + 1
       /\ Walk(Now, last.o) =
            [ok |-> TRUE,
             vals |-> SubSeq(last.pre.walk.vals, 1, last.n) \o << last.v >>
                      \o SubSeq(last.pre.walk.vals, last.n + 1, last.pre.sz)]
       /\ operator_diff(last.ret, obj[last.o].start) = last.n
       /\ ReadElem(Now, last.ret.cur) = last.v

\* C19: insert(pos, count, value) with count >= 1 at an index with
\* 0 < index < size() yields the old elements before index, then count copies
\* of value, then the old elements from index on; size() grows by count and
\* the iterator returned designates index.
C19_InsertCountInMiddle ==
    (last.op = "insert_n" /\ ~last.thrown /\ last.pre.walk.ok
     /\ Len(last.s) >= 1 /\ 0 < last.n /\ last.n < last.pre.sz)
    => /\ fault = "none"
       /\ size(Now, last.o) = last.pre.sz + Len(last.s)
       /\ Walk(Now, last.o) =
            [ok |-> TRUE,
             vals |-> SubSeq(last.pre.walk.vals, 1, last.n)
                      \o [k \in 1..Len(last.s) |-> last.v]
                      \o SubSeq(last.pre.walk.vals, last.n + 1, last.pre.sz)]
       /\ operator_diff(last.ret, obj[last.o].start) = last.n
       /\ ReadElem(Now, last.ret.cur) = last.v

\* C21: reserve(n) with n <= capacity() changes nothing (buffer, size,
\* capacity, elements); with capacity() < n <= max_size() it ends with
\* capacity() >= n and the same size and elements; with n > max_size() it
\* throws and the vector is what it was.
C21_ReserveGrowsOrKeeps ==
    (last.op = "reserve" /\ last.o = 1)
    => /\ fault = "none"
       /\ last.n <= last.pre.cap => (~last.thrown /\ VSnap(VNow, 1) = last.pre)
       /\ (last.pre.cap < last.n /\ last.n <= max_size)
            => /\ ~last.thrown
               /\ VSnap(VNow, 1).cap >= last.n
               /\ VSnap(VNow, 1).sz = last.pre.sz
               /\ VSnap(VNow, 1).elems = last.pre.elems
       /\ last.n > max_size => (last.thrown /\ VSnap(VNow, 1) = last.pre)

\* a reserve beyond the capacity moved at least two elements to a new buffer
C21_Witness ==
    /\ last.op = "reserve" /\ last.o = 1 /\ fault = "none" /\ ~last.thrown
    /\ last.pre.sz >= 2 /\ last.n > last.pre.cap
    /\ VSnap(VNow, 1).start # last.pre.start
    /\ VSnap(VNow, 1).elems = last.pre.elems

\* every slot of [_start, _finish) held an object when the snapshot was taken
VWellFormed(sn) == \A k \in 1..Len(sn.elems) : sn.elems[k] # Raw

\* C22: emplace(pos, v) (insert(pos, v) forwards to it) at an index idx with
\* 0 <= idx <= size() yields the old elements before idx, then v, then the old
\* elements from idx on; size() grows by 1 and the iterator returned
\* designates idx, with and without spare capacity, on a vector whose
\* elements were all constructed.
C22_EmplaceInserts ==
    (last.op = "emplace" /\ last.o = 1 /\ ~last.thrown /\ VWellFormed(last.pre))
    => /\ fault = "none"
       /\ VSnap(VNow, 1).sz = last.pre.sz + 1
       /\ VSnap(VNow, 1).elems =
            SubSeq(last.pre.elems, 1, last.n) \o << last.v >>
            \o SubSeq(last.pre.elems, last.n + 1, last.pre.sz)
       /\ last.ret = last.n

\* C23: after operator=(initializer_list) the vector has the list's length
\* and the list's elements in order, whatever the old size and capacity.
C23_IlistAssignReplaces ==
    (last.op = "ilist_assign" /\ last.o = 1 /\ VAlive(1) /\ ~last.thrown
     /\ VWellFormed(last.pre))
    => /\ fault = "none"
       /\ VSnap(VNow, 1).sz = Len(last.s)
       /\ VSnap(VNow, 1).elems = last.s

\* C24: after the copy assignment dst = src, dst has the size and the
\* elements of src, src is what it was, and the two do not share a buffer
\* unless both are empty; dst = dst leaves dst as it was.
C24_CopyAssignCopies ==
    (last.op = "copy_assign" /\ ~last.thrown)
    => /\ fault = "none"
       /\ VSnap(VNow, last.src) = last.presrc
       /\ VSnap(VNow, last.o).sz = last.presrc.sz
       /\ VSnap(VNow, last.o).elems = last.presrc.elems
       /\ last.o = last.src => VSnap(VNow, last.o) = last.pre
       /\ (last.o # last.src /\ last.presrc.sz > 0)
            => VSnap(VNow, last.o).start # VSnap(VNow, last.src).start

\* an assignment from a longer source into a non-empty destination whose
\* capacity sufficed: a prefix assigned, the rest constructed behind it
C24_Witness ==
    /\ last.op = "copy_assign" /\ fault = "none" /\ ~cfg.trivial
    /\ last.o # last.src
    /\ last.pre.sz < last.presrc.sz /\ last.presrc.sz <= last.pre.cap
    /\ last.pre.sz >= 1
    /\ VSnap(VNow, last.o).elems = last.presrc.elems
    /\ VSnap(VNow, last.o).start = last.pre.start

\* a deque whose forward walk from begin() meets end() after size() elements
Walkable(sn) ==
    /\ sn.walk.ok /\ sn.sz = Len(sn.walk.vals) /\ sn.sz > 0
    /\ \A k \in 1..Len(sn.walk.vals) : sn.walk.vals[k] # Raw

Reversed(s) == [k \in 1..Len(s) |-> s[Len(s) + 1 - k]]

\* C25: on a non-empty deque *(rbegin() + k) is the element at index
\* size() - 1 - k (for k = 0 the last element), -- undoes ++ on a reverse
\* iterator, and the walk by ++ from rbegin() meets rend() after exactly
\* size() steps, having visited the elements in reverse order.
C25_ReverseIteration ==
    /\ (last.op = "reverse_at" /\ Walkable(last.pre))
       => /\ fault = "none"
          /\ last.ret = last.pre.walk.vals[last.pre.sz - last.n]
    /\ (last.op = "reverse_inc_dec" /\ Walkable(last.pre))
       => /\ fault = "none"
          /\ last.ret.back = last.ret.at
    /\ (last.op = "reverse_walk" /\ Walkable(last.pre))
       => /\ fault = "none"
          /\ last.ret.ok
          /\ last.ret.vals = Reversed(last.pre.walk.vals)

\* C26: a call of insert(pos, T&& value) on a live deque and a position of
\* it comes to an end: it returns or throws after finitely many steps.
C26_InsertReturnsOrThrows == (call.op = "insert_rvalue") ~> (call.op = "none")

\* C27: for an iterator p on index x with begin() <= p < end(), ++p is the
\* iterator on index x + 1 (end() when x + 1 = size()); it is on the first
\* slot of the next map slot's block exactly when p is on the last slot of
\* its block, and one slot further in p's block otherwise; -- applied to it
\* gives back the cursor (cur, first, last, node) of p.
C27_IncThenDec ==
    (/\ last.op = "iter_inc_dec" /\ fault = "none"
     /\ operator_le(last.pre.d.start, last.ret.p)
     /\ operator_lt(last.ret.p, last.pre.d.finish))
    => /\ IF last.ret.p.cur = last.ret.p.last - 1
          THEN /\ last.ret.q.node = last.ret.p.node + 1
               /\ last.ret.q.cur = last.ret.q.first
               /\ last.ret.q.last = last.ret.q.first + buffer_size
          ELSE last.ret.q = [last.ret.p EXCEPT !.cur = @ + 1]
       /\ last.ret.r = last.ret.p
       /\ operator_diff(last.ret.q, last.pre.d.start) = last.ret.x + 1
       /\ last.ret.x + 1 = last.pre.sz => operator_eq(last.ret.q, last.pre.d.finish)

\* C28: for an iterator on an index x of [begin(), end()] and an n with
\* 0 <= x + n <= size(), it += n leaves the cursor that n applications of ++
\* (n > 0), -n applications of -- (n < 0) or no step at all (n = 0) leave.
C28_PlusEqIsSteps ==
    (last.op = "iter_pluseq" /\ fault = "none")
    => last.ret.jumped = last.ret.stepped

\* C29: for iterators it1 on index x1 and it2 on index x2 of one deque,
\* it2 - it1 is x2 - x1, the number of ++ steps from it1 to it2;
\* it1 - it2 is its negation, and (it1 + n) - it1 is n.
C29_DifferenceIsDistance ==
    (last.op = "iter_diff" /\ fault = "none")
    => /\ last.ret.d21 = last.ret.x2 - last.ret.x1
       /\ last.ret.d12 = -last.ret.d21
       /\ last.ret.plus = last.ret.x2 - last.ret.x1

\* C30: for iterators a on index x1 and b on index x2 of one deque, end()
\* and the results of += included, a < b exactly when x1 < x2, which is
\* when a - b < 0, and >, <=, >= agree with the indices in the same way.
C30_OrderIsIndexOrder ==
    (last.op = "iter_compare" /\ fault = "none")
    => /\ last.ret.lt <=> last.ret.x1 < last.ret.x2
       /\ last.ret.lt <=> last.ret.diff < 0
       /\ last.ret.gt <=> last.ret.x1 > last.ret.x2
       /\ last.ret.le <=> last.ret.x1 <= last.ret.x2
       /\ last.ret.ge <=> last.ret.x1 >= last.ret.x2

\* the step a call of _reallocate_map on deque 1 takes
ReallocStep == nops' = nops + 1 /\ last'.op = "reallocate_map"

\* C31: _reallocate_map(add_front, add_back) allocates a map of
\* old_size + max(old_size, add_front + add_back) slots, copies the run of
\* block pointers in order to offset (new_size - old_nodes) / 2 + add_front,
\* frees the old map, and leaves both cursors on the same blocks and offsets:
\* size and walk are as before and no block is allocated or freed.
C31_ReallocKeepsDeque ==
    [][(ReallocStep /\ ~last'.thrown)
       => /\ fault' = "none"
          /\ obj'[1].map_size
               = obj[1].map_size + Max(obj[1].map_size, last'.n + last'.v)
          /\ obj'[1].start.node
               = obj'[1].map + (obj'[1].map_size - (obj[1].finish.node - obj[1].start.node + 1)) \div 2
                 + last'.n
          /\ \A k \in 0..(obj[1].finish.node - obj[1].start.node) :
                 ReadSlot(Now', obj'[1].start.node + k) = ReadSlot(Now, obj[1].start.node + k)
          /\ obj'[1].finish.node - obj'[1].start.node = obj[1].finish.node - obj[1].start.node
          /\ maps'[MapOf(obj[1].map)].st = "freed"
          /\ stats'.nalloc = stats.nalloc + 1
          /\ obj'[1].start.first = obj[1].start.first /\ obj'[1].start.cur = obj[1].start.cur
          /\ obj'[1].finish.first = obj[1].finish.first /\ obj'[1].finish.cur = obj[1].finish.cur
          /\ blk' = blk
          /\ Snap(Now', 1).sz = last'.pre.sz
          /\ Snap(Now', 1).walk = last'.pre.walk
      ]_vars

\* C32: after _reallocate_map(add_front, add_back), called as the emplace and
\* bulk-insert paths call it, the run of block pointers lies inside the new
\* map, with at least add_front slots before start.node and at least
\* add_back slots after finish.node.
C32_ReallocLeavesRoom ==
    (last.op = "reallocate_map" /\ ~last.thrown)
    => /\ fault = "none"
       /\ obj[1].start.node - obj[1].map >= last.n
       /\ obj[1].map + obj[1].map_size - 1 - obj[1].finish.node >= last.v
       /\ obj[1].finish.node < obj[1].map + obj[1].map_size

\* C33: when the allocation of the new map fails, _reallocate_map throws with
\* the members, the map with its block pointers, and the blocks as they
\* were; the old map is still allocated.
C33_FailedReallocKeepsOldMap ==
    [][(ReallocStep /\ last'.thrown)
       => /\ fault' = "none"
          /\ obj' = obj /\ maps' = maps /\ blk' = blk
          /\ LiveMap(Now', MapOf(obj'[1].map))
      ]_vars

C33_Witness ==
    /\ last.op = "reallocate_map" /\ last.thrown /\ fault = "none"
    /\ last.pre.sz >= 2 /\ LiveMap(Now, MapOf(obj[1].map))
    /\ Snap(Now, 1) = last.pre

\* the step one emplace call on deque 1 takes
PushStep(op) == nops' = nops + 1 /\ last'.op = op

\* C34: when the boundary block has room (finish.cur # finish.last for
\* emplace_back, start.cur # start.first for emplace_front) the call allocates
\* no block and no map, leaves the map, its size, every block pointer and the
\* opposite cursor as they were, and moves only cur of the near cursor, by
\* one slot.
C34_FastPathMovesOneCursor ==
    [][/\ (PushStep("emplace_back") /\ obj[1].finish.cur # obj[1].finish.last)
          => /\ fault' = "none" /\ ~last'.thrown
             /\ stats'.nalloc = stats.nalloc
             /\ maps' = maps
             /\ \A b \in BlkIds : blk'[b].st = blk[b].st
             /\ obj'[1] = [obj[1] EXCEPT !.finish.cur = @ + 1]
             /\ Snap(Now', 1).sz = last'.pre.sz + 1
       /\ (PushStep("emplace_front") /\ obj[1].start.cur # obj[1].start.first)
          => /\ fault' = "none" /\ ~last'.thrown
             /\ stats'.nalloc = stats.nalloc
             /\ maps' = maps
             /\ \A b \in BlkIds : blk'[b].st = blk[b].st
             /\ obj'[1] = [obj[1] EXCEPT !.start.cur = @ - 1]
             /\ Snap(Now', 1).sz = last'.pre.sz + 1
      ]_vars

\* the blocks allocated in a world
LiveBlocks(W) == {b \in BlkIds : W.blk[b].st = "live"}

\* C35: on the slow path of emplace_back and emplace_front the map is
\* reallocated only when there is no unused map slot next to the boundary
\* node on the growing side; exactly one block is allocated and stored in the
\* slot next to the old boundary node, and the near cursor moves into that
\* block so that size() grows by exactly one.
C35_SlowPathAddsOneBlock ==
    [][/\ (PushStep("emplace_back") /\ obj[1].finish.cur = obj[1].finish.last /\ ~last'.thrown)
          => /\ fault' = "none"
             /\ obj'[1].map # obj[1].map
                  => obj[1].finish.node + 1 >= obj[1].map + obj[1].map_size
             /\ \E b \in BlkIds \ LiveBlocks(Now) :
                    /\ LiveBlocks(Now') = LiveBlocks(Now) \cup {b}
                    /\ ReadSlot(Now', obj'[1].finish.node) = BlkAddr(b)
                    /\ obj'[1].finish.first = BlkAddr(b)
             /\ obj'[1].finish.node - obj'[1].start.node
                  = obj[1].finish.node - obj[1].start.node + 1
             /\ Snap(Now', 1).sz = last'.pre.sz + 1
       /\ (PushStep("emplace_front") /\ obj[1].start.cur = obj[1].start.first /\ ~last'.thrown)
          => /\ fault' = "none"
             /\ obj'[1].map # obj[1].map => obj[1].start.node <= obj[1].map
             /\ \E b \in BlkIds \ LiveBlocks(Now) :
                    /\ LiveBlocks(Now') = LiveBlocks(Now) \cup {b}
                    /\ ReadSlot(Now', obj'[1].start.node) = BlkAddr(b)
                    /\ obj'[1].start.first = BlkAddr(b)
             /\ obj'[1].finish.node - obj'[1].start.node
                  = obj[1].finish.node - obj[1].start.node + 1
             /\ Snap(Now', 1).sz = last'.pre.sz + 1
      ]_vars

\* the step one call of insert(pos, value) takes
InsertStep == nops' = nops + 1 /\ last'.op = "insert"

\* the call left the deque, the maps and the blocks as the world W has them
LeftAs(W, o) ==
    /\ obj'[o] = W.obj[o] /\ maps' = W.maps /\ blk' = W.blk /\ fault' = W.fault

\* the side the claim has insert shift at index idx of sz elements
ShiftsFront(o, idx, sz) ==
    IF obj[o].start.cur # obj[o].start.first /\ obj[o].finish.cur = obj[o].finish.last
    THEN TRUE
    ELSE IF obj[o].start.cur = obj[o].start.first /\ obj[o].finish.cur # obj[o].finish.last
    THEN FALSE
    ELSE idx * 2 < sz

\* C36: insert(pos, value) with 0 < index < size() shifts the front half when
\* only the front block has room, the back half when only the back block has
\* room, and otherwise the front half exactly when index * 2 < size();
\* index = 0 is emplace_front and index = size() is emplace_back.
C36_InsertPicksSide ==
    [][(InsertStep /\ ~last'.thrown)
       => /\ (0 < last'.n /\ last'.n < last'.pre.sz)
             => /\ fault' = "none"
                /\ IF ShiftsFront(last'.o, last'.n, last'.pre.sz)
                   THEN /\ obj'[last'.o].start.cur # obj[last'.o].start.cur
                        /\ obj'[last'.o].finish.cur = obj[last'.o].finish.cur
                   ELSE /\ obj'[last'.o].start.cur = obj[last'.o].start.cur
                        /\ obj'[last'.o].finish.cur # obj[last'.o].finish.cur
          /\ last'.n = 0 => LeftAs(emplace_front(Now, last'.o, last'.v), last'.o)
          /\ last'.n = last'.pre.sz => LeftAs(emplace_back(Now, last'.o, last'.v), last'.o)
      ]_vars

\* the step one call of reserve or _realloc_insert on vector 1 takes
GrowStep == nops' = nops + 1 /\ last'.op \in {"reserve", "realloc_insert"}

\* C37: when reserve or _realloc_insert throws while it fills the new
\* buffer, the elements it had constructed there are destroyed and the new
\* buffer is deallocated before the exception leaves; _start, _finish and
\* _end_of_storage still designate the old buffer, which is still allocated.
C37_FailedGrowthRollsBack ==
    [][(GrowStep /\ last'.thrown)
       => /\ fault' = "none"
          /\ vec'.v[1] = vec.v[1]
          /\ \A b \in BufIds :
                /\ vec'.heap[b].st = "live" <=> vec.heap[b].st = "live"
                /\ vec'.heap[b].st # vec.heap[b].st
                   => /\ vec'.heap[b].st = "freed"
                      /\ \A k \in 1..Len(vec'.heap[b].data) : vec'.heap[b].data[k] = Raw
      ]_vars

\* a growth of a vector of three non-trivial elements has failed at its
\* second construction: the buffer it had allocated is freed, the one
\* element built in it destroyed
C37_Witness ==
    /\ last.op \in {"reserve", "realloc_insert"} /\ last.thrown /\ fault = "none"
    /\ ~cfg.trivial /\ last.s = << 3 >> /\ last.pre.sz = 3
    /\ hist[1] = "vector_ilist" /\ Len(hist) = 2
    /\ LiveBuf(VNow, vec.v[1].start) /\ vec.v[1].fin = 3
    /\ \E b \in BufIds : vec.heap[b].st = "freed"

\* the maps allocated in a world
LiveMaps(W) == {m \in MapIds : W.maps[m].st = "live"}

\* the step a count or fill construction of deque 1 takes
CtorStep == nops' = nops + 1 /\ last'.op \in {"ctor_count", "ctor_fill"}

\* C38: when a block allocation fails in _initialize_map, after the map and
\* some of the blocks were allocated, the map and every block allocated so
\* far are deallocated before the exception leaves the constructor.
C38_FailedInitFreesAll ==
    [][(CtorStep /\ last'.thrown
        /\ stats'.nalloc - stats.nalloc >= 1
        /\ stats'.nalloc - stats.nalloc <= Max(NBlocks(last'.n), 1))
       => /\ fault' = "none"
          /\ LiveMaps(Now') = LiveMaps(Now)
          /\ LiveBlocks(Now') = LiveBlocks(Now)
      ]_vars

\* C39: emplace at a middle position of a vector with spare capacity, for a
\* T that is not trivially copyable, constructs a slot only while it holds no
\* object and destroys it only while it holds one: no slot is destroyed
\* twice, and afterwards exactly the slots of [_start, _finish) hold objects.
C39_EmplaceKeepsLifetimes ==
    (/\ last.op = "emplace" /\ last.o = 1 /\ ~last.thrown /\ ~cfg.trivial
     /\ VWellFormed(last.pre) /\ last.pre.sz < last.pre.cap /\ last.n < last.pre.sz)
    => /\ fault = "none"
       /\ vec.v[1].start = last.pre.start
       /\ vec.v[1].fin = last.pre.sz + 1
       /\ \A k \in 0..(vec.v[1].eos - 1) :
              VRead(VNow, vec.v[1].start, k) # Raw <=> k < vec.v[1].fin

====
